---- MODULE Spec2Model ----
(***************************************************************************)
(* State-vector simulator of quantum-lens: the gate application loops of   *)
(* App.tsx / UnitaryMatrixVisualizer.tsx, the circuit editor of App.tsx    *)
(* (grid history, settings, loaders) and the MeasurementLab histogram.     *)
(*                                                                         *)
(* Arithmetic.  Every matrix entry of the gate library lies in the ring    *)
(* Z[sqrt 2, 1/2]: a real number is (p + q*sqrt2) / 2^k, kept in lowest    *)
(* terms, and a Complex is a pair {r, i} of such reals.  The operators     *)
(* add / mul / mulS / magSq are the formulas of the source evaluated in    *)
(* that ring, i.e. the real-number semantics of the IEEE doubles the       *)
(* program uses; rounding (of the order of 1e-16 per operation) is not     *)
(* modelled, which is the tolerance the properties allow for.              *)
(***************************************************************************)
EXTENDS Integers, Sequences, FiniteSets, TLC

\* ------------------------------------------------------------------------
\* Bounds of the model
\* ------------------------------------------------------------------------
MaxSimQubits == 3
MaxSimGates == 2
\* grid width: the settings slider (10..50, initially 20) scaled down
MinSteps == 3
InitSteps == 4
\* number of user events in a run of the editor / of the measurement lab
MaxAppOps == 2
MaxLabOps == 3
\* user events and device commands of a run with the serial bridge
MaxBridgeOps == 4
\* user events of a run that loads a drawn grid and aligns it
MaxAlignOps == 3
\* processMessage calls of one mount of the chat, chunks of one streamed
\* response, and board edits of a run with the chat
MaxChatRequests == 2
MaxChunks == 2
MaxChatEdits == 1
\* batch size of the lab: the slider (10..1000, initially 100) scaled down
MaxShots == 2

\* ------------------------------------------------------------------------
\* Reals of the form (p + q*sqrt2) / 2^k
\* ------------------------------------------------------------------------
RECURSIVE Pow2(_)
Pow2(n) == IF n <= 0 THEN 1 ELSE 2 * Pow2(n - 1)

RECURSIVE Reduce(_, _, _)
Reduce(p, q, k) ==
  IF p = 0 /\ q = 0 THEN [p |-> 0, q |-> 0, k |-> 0]
  ELSE IF k > 0 /\ p % 2 = 0 /\ q % 2 = 0 THEN Reduce(p \div 2, q \div 2, k - 1)
  ELSE [p |-> p, q |-> q, k |-> k]

RInt(n) == [p |-> n, q |-> 0, k |-> 0]
RZero == RInt(0)
ROne == RInt(1)
RHalf == [p |-> 1, q |-> 0, k |-> 1]

RAdd(a, b) ==
  LET k == IF a.k > b.k THEN a.k ELSE b.k
  IN Reduce(a.p * Pow2(k - a.k) + b.p * Pow2(k - b.k),
            a.q * Pow2(k - a.k) + b.q * Pow2(k - b.k), k)

RNeg(a) == [p |-> 0 - a.p, q |-> 0 - a.q, k |-> a.k]

RSub(a, b) == RAdd(a, RNeg(b))

RMul(a, b) ==
  Reduce(a.p * b.p + 2 * a.q * b.q, a.p * b.q + a.q * b.p, a.k + b.k)

\* ------------------------------------------------------------------------
\* Complex helpers (App.tsx 26-31)
\* ------------------------------------------------------------------------
Cx(re, im) == [r |-> re, i |-> im]

zero == Cx(RZero, RZero)
one == Cx(ROne, RZero)

add(a, b) == Cx(RAdd(a.r, b.r), RAdd(a.i, b.i))

mul(a, b) ==
  Cx(RSub(RMul(a.r, b.r), RMul(a.i, b.i)), RAdd(RMul(a.r, b.i), RMul(a.i, b.r)))

mulS(a, s) == Cx(RMul(a.r, s), RMul(a.i, s))

magSq(a) == RAdd(RMul(a.r, a.r), RMul(a.i, a.i))

\* 1 / Math.sqrt(2) = sqrt2 / 2; Math.cos(PI/4) = Math.sin(PI/4) = sqrt2 / 2
INV_SQRT_2 == [p |-> 0, q |-> 1, k |-> 1]
COS_PI_4 == [p |-> 0, q |-> 1, k |-> 1]
SIN_PI_4 == [p |-> 0, q |-> 1, k |-> 1]

\* ------------------------------------------------------------------------
\* Gates
\* ------------------------------------------------------------------------
NoControl == -1

SINGLE_TYPES == {"H", "X", "Y", "Z", "S", "T"}
CONTROLLED_TYPES == {"CX", "CZ", "CY", "CS"}

Gate(id, type, target, control) ==
  [id |-> id, type |-> type, target |-> target, control |-> control]

\* the bit tests and shifts of the pairing loop
Bit(idx, q) == (idx \div Pow2(q)) % 2

\* the pairing with the high bits left in place (the shift by one dropped), so
\* that idx0 is i itself and bit target of idx0 is not always clear
Idx0Unshifted(i, target) ==
  LET lowMask == Pow2(target) - 1
      low == i % (lowMask + 1)
      high == i - low
  IN high + low

Idx0(i, target) ==
  LET lowMask == Pow2(target) - 1
      low == i % (lowMask + 1)
      high == (i - low) * 2
  IN high + low

Idx1(i, target) == Idx0(i, target) + Pow2(target)

\* the iteration i of the pairing loop whose pair {idx0, idx1} holds idx: idx
\* with bit target taken out (idx0 = high | low puts a clear bit back in, idx1 a
\* set one), so every index is written by exactly one of the numStates / 2
\* iterations and their order does not show in the result
PairOf(idx, target, numStates) ==
  (idx \div Pow2(target + 1)) * Pow2(target) + (idx % Pow2(target))

\* applyGate with the pairing taken on the wire after the target (an off-by-one
\* in the bit position); DisjointGatesCommute does not survive it
applyGateNextWire(state, u, target, numStates) ==
  LET wire == IF Pow2(target + 1) < numStates THEN target + 1 ELSE 0
  IN [idx \in DOMAIN state |->
        LET i == PairOf(idx, wire, numStates)
            a0 == state[Idx0(i, wire)]
            a1 == state[Idx1(i, wire)]
        IN IF idx = Idx0(i, wire) THEN add(mul(u[1], a0), mul(u[2], a1))
           ELSE add(mul(u[3], a0), mul(u[4], a1))] @@ state

\* applyGate: newState = [...state], which iteration i overwrites at idx0 and
\* idx1 with values computed from state[idx0], state[idx1]
applyGate(state, u, target, numStates) ==
  [idx \in DOMAIN state |->
     LET i == PairOf(idx, target, numStates)
         idx0 == Idx0(i, target)
         idx1 == Idx1(i, target)
         a0 == state[idx0]
         a1 == state[idx1]
     IN IF idx = idx0 THEN add(mul(u[1], a0), mul(u[2], a1))
        ELSE add(mul(u[3], a0), mul(u[4], a1))] @@ state

\* ControlledPair whose CX branch copies a0, a1 back without exchanging them;
\* CXTruthTable does not survive it
ControlledPairNoSwap(type, a0, a1) ==
  IF type = "CX" THEN <<a0, a1>>
  ELSE IF type = "CZ" THEN <<a0, mulS(a1, RInt(-1))>>
  ELSE IF type = "CY" THEN <<Cx(a1.i, RNeg(a1.r)), Cx(RNeg(a0.i), a0.r)>>
  ELSE IF type = "CS" THEN <<a0, Cx(RNeg(a1.i), a1.r)>>
  ELSE <<a0, a1>>

\* ControlledPair whose CY branch carries the two signs on the wrong halves
\* (i * a1, -i * a0); ControlledMatchesMatrix does not survive it
ControlledPairCYSign(type, a0, a1) ==
  IF type = "CX" THEN <<a1, a0>>
  ELSE IF type = "CZ" THEN <<a0, mulS(a1, RInt(-1))>>
  ELSE IF type = "CY" THEN <<Cx(RNeg(a1.i), a1.r), Cx(a0.i, RNeg(a0.r))>>
  ELSE IF type = "CS" THEN <<a0, Cx(RNeg(a1.i), a1.r)>>
  ELSE <<a0, a1>>

\* the branch of applyControlledGate taken for one pair whose control bit is set
ControlledPair(type, a0, a1) ==
  IF type = "CX" THEN <<a1, a0>>
  ELSE IF type = "CZ" THEN <<a0, mulS(a1, RInt(-1))>>
  ELSE IF type = "CY" THEN <<Cx(a1.i, RNeg(a1.r)), Cx(RNeg(a0.i), a0.r)>>
  ELSE IF type = "CS" THEN <<a0, Cx(RNeg(a1.i), a1.r)>>
  ELSE <<a0, a1>>

\* isControlSet without the test of the control bit; ControlClearUnchanged does
\* not survive it
isControlSetAlways(idx0, ctrl) == TRUE

isControlSet(idx0, ctrl) == Bit(idx0, ctrl) # 0

\* applyControlledGate: the same pairing on the target; newState = [...state]
\* is overwritten only at the pairs whose idx0 has the control bit set
applyControlledGate(state, type, ctrl, tgt, numStates) ==
  [idx \in {j \in DOMAIN state :
              isControlSet(Idx0(PairOf(j, tgt, numStates), tgt), ctrl)} |->
     LET i == PairOf(idx, tgt, numStates)
         idx0 == Idx0(i, tgt)
         idx1 == Idx1(i, tgt)
         pr == ControlledPair(type, state[idx0], state[idx1])
     IN IF idx = idx0 THEN pr[1] ELSE pr[2]] @@ state

\* the 2x2 matrices of X, Y, Z, S, T handed to applyGate, <<u00, u01, u10, u11>>
PhaseFlipMatrix(type) ==
  IF type = "X" THEN <<zero, one, one, zero>>
  ELSE IF type = "Y" THEN <<zero, Cx(RZero, RInt(-1)), Cx(RZero, ROne), zero>>
  ELSE IF type = "Z" THEN <<one, zero, zero, Cx(RInt(-1), RZero)>>
  ELSE IF type = "S" THEN <<one, zero, zero, Cx(RZero, ROne)>>
  ELSE <<one, zero, zero, Cx(COS_PI_4, SIN_PI_4)>>

\* GateMatrix whose H lacks the factor 1 / sqrt 2; NormPreserved does not survive it
GateMatrixUnnormalised(type) ==
  IF type = "H" THEN <<one, one, one, Cx(RInt(-1), RZero)>>
  ELSE PhaseFlipMatrix(type)

\* GateMatrix whose H has lost the minus sign of u11; HXInvolution does not
\* survive it
GateMatrixSignSlip(type) ==
  IF type = "H" THEN <<Cx(INV_SQRT_2, RZero), Cx(INV_SQRT_2, RZero),
                       Cx(INV_SQRT_2, RZero), Cx(INV_SQRT_2, RZero)>>
  ELSE PhaseFlipMatrix(type)

\* the 2x2 matrix of a single-qubit gate
GateMatrix(type) ==
  IF type = "H" THEN <<Cx(INV_SQRT_2, RZero), Cx(INV_SQRT_2, RZero),
                       Cx(INV_SQRT_2, RZero), Cx(RNeg(INV_SQRT_2), RZero)>>
  ELSE PhaseFlipMatrix(type)

\* DispatchGate handing control and target to applyControlledGate in the wrong
\* order; BellAndGHZ does not survive it
DispatchGateSwapped(state, gate, nq) ==
  LET T == gate.target
      C == gate.control
      numStates == Pow2(nq)
  IN IF T >= nq \/ (C # NoControl /\ C >= nq) THEN state
     ELSE IF gate.type \in SINGLE_TYPES
       THEN applyGate(state, GateMatrix(gate.type), T, numStates)
     ELSE IF C # NoControl
       THEN applyControlledGate(state, gate.type, T, C, numStates)
     ELSE state

\* body of flattenedCircuit.forEach: one gate of the fold
DispatchGate(state, gate, nq) ==
  LET T == gate.target
      C == gate.control
      numStates == Pow2(nq)
  IN IF T >= nq \/ (C # NoControl /\ C >= nq) THEN state
     ELSE IF gate.type \in SINGLE_TYPES
       THEN applyGate(state, GateMatrix(gate.type), T, numStates)
     ELSE IF C # NoControl
       THEN applyControlledGate(state, gate.type, C, T, numStates)
     ELSE state

BasisVector(k, nq) == [idx \in 0 .. Pow2(nq) - 1 |-> IF idx = k THEN one ELSE zero]

RECURSIVE FoldGates(_, _, _, _)
FoldGates(state, gates, from, nq) ==
  IF from > Len(gates) THEN state
  ELSE FoldGates(DispatchGate(state, gates[from], nq), gates, from + 1, nq)

\* the simulation effect of App
runSimulation(initialState, gates, nq) == FoldGates(initialState, gates, 1, nq)

\* sum of |state[n]|^2 over lo <= n < hi
RECURSIVE SumProb(_, _, _)
SumProb(state, lo, hi) ==
  IF hi <= lo THEN RZero
  ELSE IF hi = lo + 1 THEN magSq(state[lo])
  ELSE LET mid == (lo + hi) \div 2
       IN RAdd(SumProb(state, lo, mid), SumProb(state, mid, hi))

NormSq(state) == SumProb(state, 0, Cardinality(DOMAIN state))

\* ------------------------------------------------------------------------
\* Order on the reals (p + q*sqrt2) / 2^k, for the sampler's rand < cdf[j]
\* ------------------------------------------------------------------------
RSign(a) ==
  IF a.p = 0 /\ a.q = 0 THEN 0
  ELSE IF a.p >= 0 /\ a.q >= 0 THEN 1
  ELSE IF a.p <= 0 /\ a.q <= 0 THEN -1
  ELSE IF a.p > 0 THEN (IF a.p * a.p > 2 * a.q * a.q THEN 1 ELSE -1)
  ELSE (IF 2 * a.q * a.q > a.p * a.p THEN 1 ELSE -1)

RLess(a, b) == RSign(RSub(b, a)) = 1

\* ------------------------------------------------------------------------
\* Grids: history[k] is a sequence of steps, a step a sequence of cells
\* (cell (step, wire) of the source is g[step + 1][wire + 1])
\* ------------------------------------------------------------------------
NullGate == Gate(-1, "null", -1, NoControl)

IsGate(cell) == cell # NullGate

Max(a, b) == IF a > b THEN a ELSE b
Min(a, b) == IF a < b THEN a ELSE b

NullRow(n) == [w \in 1 .. n |-> NullGate]

EmptyGrid(steps, qubits) == [s \in 1 .. steps |-> NullRow(qubits)]

\* row[wire] = val of a JS array: writing past the end grows the array
SetRow(row, wire, val) ==
  IF wire + 1 <= Len(row) THEN [row EXCEPT ![wire + 1] = val]
  ELSE [w \in 1 .. wire + 1 |-> IF w = wire + 1 THEN val
                                ELSE IF w <= Len(row) THEN row[w] ELSE NullGate]

SetCell(g, step, wire, val) == [g EXCEPT ![step + 1] = SetRow(g[step + 1], wire, val)]

\* g[step][wire], an absent cell reading as empty
Cell(g, step, wire) ==
  IF step + 1 \in DOMAIN g /\ wire + 1 \in DOMAIN g[step + 1]
    THEN g[step + 1][wire + 1] ELSE NullGate

IsControlled(type) == type \in CONTROLLED_TYPES

\* flattenedCircuit: step-major, then wire-minor
RECURSIVE FlattenFrom(_, _)
FlattenFrom(g, s) ==
  IF s > Len(g) THEN <<>> ELSE SelectSeq(g[s], IsGate) \o FlattenFrom(g, s + 1)

Flatten(g) == FlattenFrom(g, 1)

RECURSIVE MaxIdOfSeq(_, _)
MaxIdOfSeq(gates, k) ==
  IF k > Len(gates) THEN 0 ELSE Max(gates[k].id, MaxIdOfSeq(gates, k + 1))

RECURSIVE MaxIdOfHistory(_, _)
MaxIdOfHistory(h, k) ==
  IF k > Len(h) THEN 0 ELSE Max(MaxIdOfSeq(Flatten(h[k]), 1), MaxIdOfHistory(h, k + 1))

\* Math.random().toString(36).substr(2, 9): an id no gate of the history carries
FreshId(h) == MaxIdOfHistory(h, 1) + 1

\* the first loop of compactGrid: every gate once, in step-major order
RECURSIVE DedupById(_, _, _)
DedupById(gates, k, seen) ==
  IF k > Len(gates) THEN <<>>
  ELSE IF gates[k].id \in seen THEN DedupById(gates, k + 1, seen)
  ELSE <<gates[k]>> \o DedupById(gates, k + 1, seen \cup {gates[k].id})

\* the second loop of compactGrid; a wire index outside nextAvailableStep reads
\* undefined, the comparison with numSteps is false and the gate is not placed
RECURSIVE placeGates(_, _, _, _, _, _)
placeGates(allGates, k, newGrid, nextAvailableStep, nSteps, nQubits) ==
  IF k > Len(allGates) THEN newGrid
  ELSE LET gate == allGates[k]
           qT == gate.target
           qC == gate.control
           defined == qT \in 0 .. nQubits - 1 /\ (qC = NoControl \/ qC \in 0 .. nQubits - 1)
           stepToPlace == IF qC # NoControl
                            THEN Max(nextAvailableStep[qT], nextAvailableStep[qC])
                            ELSE nextAvailableStep[qT]
       IN IF defined /\ stepToPlace < nSteps
            THEN placeGates(allGates, k + 1, SetCell(newGrid, stepToPlace, qT, gate),
                   IF qC # NoControl
                     THEN [nextAvailableStep EXCEPT ![qT] = stepToPlace + 1,
                                                    ![qC] = stepToPlace + 1]
                     ELSE [nextAvailableStep EXCEPT ![qT] = stepToPlace + 1],
                   nSteps, nQubits)
            ELSE placeGates(allGates, k + 1, newGrid, nextAvailableStep, nSteps, nQubits)

compactGrid(g, mode, nSteps, nQubits) ==
  IF mode = "freeform" THEN g
  ELSE placeGates(DedupById(Flatten(g), 1, {}), 1, EmptyGrid(nSteps, nQubits),
                  [q \in 0 .. nQubits - 1 |-> 0], nSteps, nQubits)

\* resizeGrid of handleConfigChange
resizeGrid(g, newQubits, newSteps) ==
  LET stepped == IF newSteps > Len(g)
                   THEN g \o [s \in 1 .. newSteps - Len(g) |-> NullRow(newQubits)]
                   ELSE SubSeq(g, 1, newSteps)
  IN [s \in 1 .. Len(stepped) |->
        IF newQubits > Len(stepped[s])
          THEN stepped[s] \o NullRow(newQubits - Len(stepped[s]))
          ELSE SubSeq(stepped[s], 1, newQubits)]

\* the gate built by handleDrop / handlePopupSelect and the grid it is put in
PlaceGate(g, gateType, step, wire, nQubits, id) ==
  IF IsControlled(gateType)
    THEN LET c1 == (wire + 1) % nQubits
             defaultControl == IF c1 = wire THEN (wire - 1 + nQubits) % nQubits ELSE c1
         IN SetCell(SetCell(g, step, defaultControl, NullGate), step, wire,
                    Gate(id, gateType, wire, defaultControl))
    ELSE SetCell(g, step, wire, Gate(id, gateType, wire, NoControl))

\* handleGateClick: the first free place, or "none"
RECURSIVE ClickScanWire(_, _, _, _, _)
ClickScanWire(col, gateType, w, nQubits, id) ==
  IF w >= nQubits THEN NullGate
  ELSE IF IsControlled(gateType)
    THEN LET c == (w + 1) % nQubits
         IN IF ~IsGate(Cell(<<col>>, 0, w)) /\ ~IsGate(Cell(<<col>>, 0, c))
              THEN Gate(id, gateType, c, w)
              ELSE ClickScanWire(col, gateType, w + 1, nQubits, id)
    ELSE IF ~IsGate(Cell(<<col>>, 0, w)) THEN Gate(id, gateType, w, NoControl)
         ELSE ClickScanWire(col, gateType, w + 1, nQubits, id)

RECURSIVE ClickScanStep(_, _, _, _, _, _)
ClickScanStep(g, gateType, step, nSteps, nQubits, id) ==
  IF step >= nSteps \/ step >= Len(g) THEN g
  ELSE LET found == ClickScanWire(g[step + 1], gateType, 0, nQubits, id)
       IN IF IsGate(found) THEN SetCell(g, step, found.target, found)
          ELSE ClickScanStep(g, gateType, step + 1, nSteps, nQubits, id)

\* CIRCUIT_EXAMPLES 1-5: <<type, w, c, s>>
CIRCUIT_EXAMPLES ==
  << << <<"H", 0, NoControl, 0>>, <<"CX", 1, 0, 1>> >>,
     << <<"X", 0, NoControl, 0>>, <<"H", 0, NoControl, 1>>, <<"CX", 1, 0, 2>> >>,
     << <<"X", 1, NoControl, 0>>, <<"H", 0, NoControl, 1>>, <<"CX", 1, 0, 2>> >>,
     << <<"X", 1, NoControl, 0>>, <<"H", 0, NoControl, 1>>, <<"Z", 0, NoControl, 2>>,
        <<"CX", 1, 0, 3>> >>,
     << <<"H", 0, NoControl, 0>>, <<"CX", 1, 0, 1>>, <<"CX", 2, 1, 2>> >> >>

RECURSIVE ExampleMaxWire(_, _)
ExampleMaxWire(gates, k) ==
  IF k > Len(gates) THEN 0
  ELSE Max(Max(gates[k][2], IF gates[k][3] = NoControl THEN 0 ELSE gates[k][3]),
           ExampleMaxWire(gates, k + 1))

RECURSIVE ExampleGrid(_, _, _, _, _, _)
ExampleGrid(gates, k, newGrid, nSteps, nQubits, firstId) ==
  IF k > Len(gates) THEN newGrid
  ELSE LET e == gates[k]
       IN ExampleGrid(gates, k + 1,
            IF e[4] < nSteps /\ e[2] < nQubits
              THEN SetCell(newGrid, e[4], e[2], Gate(firstId + k - 1, e[1], e[2], e[3]))
              ELSE newGrid,
            nSteps, nQubits, firstId)

\* gates.forEach of handleLoadGates
RECURSIVE LoadGatesLoop(_, _, _, _, _, _)
LoadGatesLoop(gates, k, newGrid, currentCol, nSteps, nQubits) ==
  IF k > Len(gates) THEN newGrid
  ELSE LET gate == gates[k]
       IN IF currentCol >= nSteps
            THEN LoadGatesLoop(gates, k + 1, newGrid, currentCol, nSteps, nQubits)
          ELSE IF gate.target >= nQubits \/ (gate.control # NoControl /\ gate.control >= nQubits)
            THEN LoadGatesLoop(gates, k + 1, newGrid, currentCol, nSteps, nQubits)
          ELSE LET isTargetOccupied == IsGate(Cell(newGrid, currentCol, gate.target))
                   isControlOccupied == IF gate.control # NoControl
                                          THEN IsGate(Cell(newGrid, currentCol, gate.control))
                                          ELSE FALSE
                   col == IF isTargetOccupied \/ isControlOccupied
                            THEN currentCol + 1 ELSE currentCol
               IN LoadGatesLoop(gates, k + 1,
                    IF col < nSteps THEN SetCell(newGrid, col, gate.target, gate) ELSE newGrid,
                    col, nSteps, nQubits)

\* ------------------------------------------------------------------------
\* Inputs of the handlers
\* ------------------------------------------------------------------------
\* configured range of the qubit slider of SettingsModal
MinQubits == 2
MaxQubits == 6
InitQubits == 4

AlignmentModes == {"freeform", "left", "layers"}

\* gate kinds dragged, picked in the popup and clicked in the palette
DropKinds == {"Z", "CX"}
PopupKinds == {"DELETE", "H"}
ClickKinds == {"Y", "CZ"}

\* cells a gate is dropped on or a popup is opened at
EditCells == {<<0, 0>>, <<0, 1>>}

\* positions the qubit slider is left at
QubitChoices == {MinQubits, MinQubits + 1, MaxQubits}

\* gate lists handed to handleLoadGates by the solver / the chat
\* (<<type, target, control>>, in linear execution order)
GateLists ==
  { << <<"H", 0, NoControl>>, <<"CX", 1, 0>> >>,
    << <<"CX", 1, 0>>, <<"H", 0, NoControl>> >>,
    << <<"CX", 0, 0>> >>,
    << <<"H", 0, NoControl>>, <<"H", 1, NoControl>>, <<"CZ", 1, 0>> >> }

WithIds(list, firstId) ==
  [k \in 1 .. Len(list) |-> Gate(firstId + k - 1, list[k][1], list[k][2], list[k][3])]

\* project files offered to loadProject: qubits / steps 0 and currentStep NoStep
\* stand for an absent field
NoStep == -99

ProjectFile(h, cs, q, s, al) ==
  [history |-> h, currentStep |-> cs, qubits |-> q, steps |-> s, alignment |-> al]

NoFile == ProjectFile(<<>>, NoStep, -1, -1, "none")

BellGrid2 ==
  SetCell(SetCell(EmptyGrid(InitSteps, 2), 0, 0, Gate(101, "H", 0, NoControl)),
          1, 1, Gate(102, "CX", 1, 0))

ProjectFiles ==
  { \* a project saved by saveProject on a 2-qubit Bell circuit after an undo
    ProjectFile(<<EmptyGrid(InitSteps, 2), BellGrid2>>, 0, 2, InitSteps, "freeform"),
    \* a file whose config asks for 7 qubits
    ProjectFile(<<EmptyGrid(InitSteps, 7)>>, 0, 7, InitSteps, "freeform"),
    \* a file without config whose gate points at wire 5
    ProjectFile(<<SetCell(EmptyGrid(InitSteps, 2), 0, 0, Gate(101, "CX", 0, 5))>>,
                NoStep, 0, 0, "left") }

\* Math.random() of the sampler
RandChoices == {RZero, RHalf, [p |-> 7, q |-> 0, k |-> 3]}

\* ------------------------------------------------------------------------
\* State
\* ------------------------------------------------------------------------
VARIABLES
  numQubits, numSteps, alignmentMode, history, currentStep, isLocked,  \* App
  amplitudes,      \* App: the published amplitude vector
  simDeps,         \* dependencies the simulation effect last ran with
  fileReader,      \* project file being read by the FileReader
  ops,             \* user events so far
  vizMode,         \* App: the visualisation shown; "measure" mounts MeasurementLab
  results, isSimulating, accumulate, shots,   \* MeasurementLab
  resetDeps,       \* dependencies the reset effect last ran with
  timer,           \* the pending setTimeout(simulate, 100) and what it captured
  simQubits, simBasis, simGates, simTrace,    \* runSimulation, gate by gate
  activeTab,       \* App: the panel shown; "hardware" mounts HardwareBridge
  hardwareMode,    \* HardwareBridge: 'pwm' or 'neopixel'
  bridge,          \* HardwareBridge: the read loop and the handler it calls
  messages, isLoading,   \* ChatInterface
  requests         \* ChatInterface: the processMessage calls of this mount

appVars == <<numQubits, numSteps, alignmentMode, history, currentStep, isLocked,
             amplitudes, simDeps, fileReader, ops>>
labVars == <<vizMode, results, isSimulating, accumulate, shots, resetDeps, timer>>
engineVars == <<simQubits, simBasis, simGates, simTrace>>
hwVars == <<activeTab, hardwareMode, bridge>>
chatVars == <<messages, isLoading, requests>>
vars == <<appVars, labVars, engineVars, hwVars, chatVars>>

EmptyVector == [idx \in {} |-> zero]

VecLen(v) == Cardinality(DOMAIN v)

\* const grid = history[currentStep]; the render throws when it is undefined
Rendered == currentStep \in 0 .. Len(history) - 1

grid == IF Rendered THEN history[currentStep + 1] ELSE <<>>

flattenedCircuit == Flatten(grid)

NoDeps == [circuit |-> <<>>, nq |-> -1]

SimDepsNow == [circuit |-> flattenedCircuit, nq |-> numQubits]

SimPending == Rendered /\ simDeps # SimDepsNow

\* const probs = amplitudes.map(...)
Probs(amps) == [idx \in DOMAIN amps |-> magSq(amps[idx])]

NoResetDeps == [numStates |-> -1, probs |-> EmptyVector]

\* the dependency list without ...probs; HistogramResetOnProbChange does not
\* survive it
ResetDepsOfLengthOnly(amps) == [numStates |-> VecLen(amps), probs |-> EmptyVector]

\* [numStates, ...probs]
ResetDepsOf(amps) == [numStates |-> VecLen(amps), probs |-> Probs(amps)]

LabMounted == vizMode = "measure"

ResetPending == LabMounted /\ Rendered /\ resetDeps # ResetDepsOf(amplitudes)

NoTimer == [cdf |-> EmptyVector, currentCounts |-> EmptyVector, shots |-> 0, numStates |-> -1]

\* every effect has run: the next event is handled
Idle == Rendered /\ ~SimPending /\ ~ResetPending

AppConstructed ==
  /\ numQubits = InitQubits
  /\ numSteps = InitSteps
  /\ alignmentMode = "freeform"
  /\ history = <<EmptyGrid(InitSteps, InitQubits)>>
  /\ currentStep = 0
  /\ isLocked = FALSE
  /\ amplitudes = EmptyVector
  /\ simDeps = NoDeps
  /\ fileReader = NoFile
  /\ ops = 0

\* useState of MeasurementLab at its mount
LabConstructed ==
  /\ results = EmptyVector
  /\ isSimulating = FALSE
  /\ accumulate = FALSE
  /\ shots = 1
  /\ resetDeps = NoResetDeps
  /\ timer = NoTimer

\* no read loop is running. A running loop calls the onCircuitControl of the
\* render connectSerial was clicked in: that render's isLocked, currentStep
\* and history.length
NoBridge ==
  [reading |-> FALSE, isConnected |-> FALSE,
   isLocked |-> FALSE, currentStep |-> 0, historyLength |-> 0]

BridgeConstructed ==
  /\ activeTab = "visuals"
  /\ hardwareMode = "pwm"
  /\ bridge = NoBridge

\* the text of a chat message: who wrote it, for which request of the mount,
\* and how many streamed chunks it holds
MessageText(src, of, chunks) == [src |-> src, of |-> of, chunks |-> chunks]

\* useState<Message[]>([{role: 'model', text: "Hello! ...", timestamp}])
Greeting == [role |-> "model", text |-> MessageText("greeting", 0, 0), timestamp |-> 1]

ChatConstructed ==
  /\ messages = <<Greeting>>
  /\ isLoading = FALSE
  /\ requests = <<>>

EngineIdle ==
  /\ simQubits = 1
  /\ simBasis = 0
  /\ simGates = <<>>
  /\ simTrace = <<BasisVector(0, 1)>>

\* ------------------------------------------------------------------------
\* App: handlers
\* ------------------------------------------------------------------------
Event == ops' = ops + 1

\* updateGrid pushing onto the whole history instead of history.slice(0,
\* currentStep + 1); EditReplacesRedoTail does not survive it
updateGridKeepTail(newGrid) ==
  IF isLocked THEN UNCHANGED <<history, currentStep>>
  ELSE LET finalGrid == compactGrid(newGrid, alignmentMode, numSteps, numQubits)
           newHistory == Append(history, finalGrid)
       IN /\ history' = newHistory
          /\ currentStep' = Len(newHistory) - 1

\* updateGrid
updateGrid(newGrid) ==
  IF isLocked THEN UNCHANGED <<history, currentStep>>
  ELSE LET finalGrid == compactGrid(newGrid, alignmentMode, numSteps, numQubits)
           newHistory == Append(SubSeq(history, 1, currentStep + 1), finalGrid)
       IN /\ history' = newHistory
          /\ currentStep' = Len(newHistory) - 1

toggleAlignmentMode(mode) ==
  /\ Idle /\ Event
  /\ IF isLocked THEN UNCHANGED <<alignmentMode, history, currentStep>>
     ELSE LET alignedGrid == compactGrid(grid, mode, numSteps, numQubits)
              newHistory == Append(SubSeq(history, 1, currentStep + 1), alignedGrid)
          IN /\ alignmentMode' = mode
             /\ history' = newHistory
             /\ currentStep' = Len(newHistory) - 1
  /\ UNCHANGED <<numQubits, numSteps, isLocked, amplitudes, simDeps, fileReader>>

handleConfigChange(newQubits, newSteps) ==
  /\ Idle /\ Event
  /\ numQubits' = newQubits
  /\ numSteps' = newSteps
  /\ history' = [k \in 1 .. Len(history) |-> resizeGrid(history[k], newQubits, newSteps)]
  /\ UNCHANGED <<alignmentMode, currentStep, isLocked, amplitudes, simDeps, fileReader>>

\* the currentStep undo and redo leave, from the values of the render they
\* are called in
undoStep(cs, locked) == IF ~locked /\ cs > 0 THEN cs - 1 ELSE cs

redoStep(cs, len, locked) == IF ~locked /\ cs < len - 1 THEN cs + 1 ELSE cs

undo ==
  /\ Idle /\ Event
  /\ currentStep' = undoStep(currentStep, isLocked)
  /\ UNCHANGED <<numQubits, numSteps, alignmentMode, history, isLocked, amplitudes,
                 simDeps, fileReader>>

redo ==
  /\ Idle /\ Event
  /\ currentStep' = redoStep(currentStep, Len(history), isLocked)
  /\ UNCHANGED <<numQubits, numSteps, alignmentMode, history, isLocked, amplitudes,
                 simDeps, fileReader>>

toggleLock ==
  /\ Idle /\ Event
  /\ isLocked' = ~isLocked
  /\ UNCHANGED <<numQubits, numSteps, alignmentMode, history, currentStep, amplitudes,
                 simDeps, fileReader>>

EditFrame == UNCHANGED <<numQubits, numSteps, alignmentMode, isLocked, amplitudes,
                         simDeps, fileReader>>

\* a cell of the rendered grid
IsCell(step, wire) == step + 1 \in DOMAIN grid /\ wire + 1 \in DOMAIN grid[step + 1]

handleDrop(gateType, stepIdx, wireIdx) ==
  /\ Idle /\ Event
  /\ IsCell(stepIdx, wireIdx)
  /\ updateGrid(PlaceGate(grid, gateType, stepIdx, wireIdx, numQubits, FreshId(history)))
  /\ EditFrame

\* handleCellClick followed by handlePopupSelect
handlePopupSelect(gateType, step, wire) ==
  /\ Idle /\ Event
  /\ IsCell(step, wire)
  /\ updateGrid(IF gateType = "DELETE" THEN SetCell(grid, step, wire, NullGate)
                ELSE PlaceGate(grid, gateType, step, wire, numQubits, FreshId(history)))
  /\ EditFrame

handleGateClick(gateType) ==
  /\ Idle /\ Event
  /\ LET newGrid == ClickScanStep(grid, gateType, 0, numSteps, numQubits, FreshId(history))
     IN IF newGrid = grid THEN UNCHANGED <<history, currentStep>>
        ELSE updateGrid(newGrid)
  /\ EditFrame

clearCircuit ==
  /\ Idle /\ Event
  /\ updateGrid(EmptyGrid(numSteps, numQubits))
  /\ EditFrame

loadExample(idx) ==
  /\ Idle /\ Event
  /\ LET example == CIRCUIT_EXAMPLES[idx]
     IN IF ExampleMaxWire(example, 1) >= numQubits THEN UNCHANGED <<history, currentStep>>
        ELSE updateGrid(ExampleGrid(example, 1, EmptyGrid(numSteps, numQubits),
                                    numSteps, numQubits, FreshId(history)))
  /\ EditFrame

handleLoadGates(list) ==
  /\ Idle /\ Event
  /\ updateGrid(LoadGatesLoop(WithIds(list, FreshId(history)), 1,
                              EmptyGrid(numSteps, numQubits), 0, numSteps, numQubits))
  /\ EditFrame

\* loadProject up to reader.readAsText(file)
loadProject(file) ==
  /\ Idle /\ Event
  /\ fileReader = NoFile
  /\ fileReader' = IF isLocked THEN NoFile ELSE file
  /\ UNCHANGED <<numQubits, numSteps, alignmentMode, history, currentStep, isLocked,
                 amplitudes, simDeps>>

\* reader.onload
readerOnload ==
  /\ Idle
  /\ fileReader # NoFile
  /\ fileReader' = NoFile
  /\ LET data == fileReader
         throws == data.qubits = 0 /\ data.history = <<>>
     IN IF throws
          THEN UNCHANGED <<numQubits, numSteps, alignmentMode, history, currentStep>>
          ELSE /\ numQubits' = IF data.qubits # 0 THEN data.qubits
                               ELSE Len(data.history[1][1])
               /\ numSteps' = IF data.steps # 0 THEN data.steps ELSE Len(data.history[1])
               /\ history' = data.history
               /\ alignmentMode' = data.alignment
               /\ currentStep' = IF data.currentStep # NoStep
                                   THEN Min(data.currentStep, Len(data.history) - 1)
                                   ELSE Len(data.history) - 1
  /\ UNCHANGED <<isLocked, amplitudes, simDeps, ops>>

\* a start that keeps the amplitudes of the previous run when their number fits
\* (an incremental update); AmplitudesAreFold does not survive it
SimulationStartIncremental(previous, nq) ==
  IF VecLen(previous) = Pow2(nq) THEN previous ELSE BasisVector(0, nq)

\* new Array(numStates).fill(zero); state[0] = one
SimulationStart(previous, nq) == BasisVector(0, nq)

\* the simulation effect, [flattenedCircuit, numQubits]
SimulationEffect ==
  /\ SimPending
  /\ ~ResetPending
  /\ amplitudes' = runSimulation(SimulationStart(amplitudes, numQubits),
                                 flattenedCircuit, numQubits)
  /\ simDeps' = SimDepsNow
  /\ UNCHANGED <<numQubits, numSteps, alignmentMode, history, currentStep, isLocked,
                 fileReader, ops>>


\* ------------------------------------------------------------------------
\* runSimulation, one gate at a time
\* ------------------------------------------------------------------------
\* gate descriptors with qubit indices in [0, nq): a single-qubit gate has no
\* control, a controlled gate has one
GateDescriptors(nq) ==
  {Gate(0, ty, t, NoControl) : ty \in SINGLE_TYPES, t \in 0 .. nq - 1}
  \cup {Gate(0, ty, tc[1], tc[2]) :
          ty \in CONTROLLED_TYPES, tc \in (0 .. nq - 1) \X (0 .. nq - 1)}

EngineInit ==
  /\ simQubits \in 1 .. MaxSimQubits
  /\ simBasis \in 0 .. Pow2(simQubits) - 1
  /\ simGates = <<>>
  /\ simTrace = <<BasisVector(simBasis, simQubits)>>
  /\ AppConstructed
  /\ vizMode = "statevector"
  /\ LabConstructed
  /\ BridgeConstructed /\ ChatConstructed

\* one iteration of gates.forEach
EngineStep ==
  /\ Len(simGates) < MaxSimGates
  /\ \E g \in GateDescriptors(simQubits) :
       /\ simGates' = Append(simGates, g)
       /\ simTrace' = Append(simTrace, DispatchGate(simTrace[Len(simTrace)], g, simQubits))
  /\ UNCHANGED <<simQubits, simBasis, appVars, labVars, hwVars, chatVars>>

EngineNext == EngineStep

SpecEngine == EngineInit /\ [][EngineNext]_vars

\* ------------------------------------------------------------------------
\* The editor
\* ------------------------------------------------------------------------
AppInit ==
  AppConstructed /\ vizMode = "statevector" /\ LabConstructed /\ EngineIdle /\ BridgeConstructed /\ ChatConstructed

\* a user event of the editor, within the budget of the run
AppOp(A) == ops < MaxAppOps /\ A /\ UNCHANGED <<labVars, engineVars, hwVars, chatVars>>

AppNext ==
  \/ \E ty \in DropKinds, c \in EditCells : AppOp(handleDrop(ty, c[1], c[2]))
  \/ \E ty \in PopupKinds, c \in EditCells : AppOp(handlePopupSelect(ty, c[1], c[2]))
  \/ \E ty \in ClickKinds : AppOp(handleGateClick(ty))
  \/ AppOp(clearCircuit)
  \/ \E idx \in 1 .. Len(CIRCUIT_EXAMPLES) : AppOp(loadExample(idx))
  \/ \E list \in GateLists : AppOp(handleLoadGates(list))
  \/ \E file \in ProjectFiles : AppOp(loadProject(file))
  \/ \E q \in QubitChoices \cup {numQubits}, st \in {MinSteps, numSteps} :
       AppOp(handleConfigChange(q, st))
  \/ AppOp(undo)
  \/ AppOp(redo)
  \/ \E mode \in AlignmentModes : AppOp(toggleAlignmentMode(mode))
  \/ AppOp(toggleLock)
  \/ readerOnload /\ UNCHANGED <<labVars, engineVars, hwVars, chatVars>>
  \/ SimulationEffect /\ UNCHANGED <<labVars, engineVars, hwVars, chatVars>>

SpecApp == AppInit /\ [][AppNext]_vars

\* ------------------------------------------------------------------------
\* MeasurementLab
\* ------------------------------------------------------------------------
\* new Array(numStates).fill(0)
ZeroCounts(numStates) == [idx \in 0 .. numStates - 1 |-> 0]

AllZero(counts) == \A idx \in DOMAIN counts : counts[idx] = 0

\* cdf[0] = probs[0]; cdf[i] = cdf[i - 1] + probs[i]
RECURSIVE CdfAt(_, _)
CdfAt(probs, i) == IF i = 0 THEN probs[0] ELSE RAdd(CdfAt(probs, i - 1), probs[i])

Cdf(probs) == [i \in DOMAIN probs |-> CdfAt(probs, i)]

\* the inner loop with rand <= cdf[j] for its test; SamplingSmallestIndex does
\* not survive it
RECURSIVE SampleOutcomeInclusive(_, _, _, _)
SampleOutcomeInclusive(rand, cdf, j, numStates) ==
  IF j >= numStates - 1 THEN numStates - 1
  ELSE IF ~RLess(cdf[j], rand) THEN j
  ELSE SampleOutcomeInclusive(rand, cdf, j + 1, numStates)

\* the inner loop of simulate: the first j < numStates - 1 with rand < cdf[j],
\* the last state otherwise
RECURSIVE SampleOutcome(_, _, _, _)
SampleOutcome(rand, cdf, j, numStates) ==
  IF j >= numStates - 1 THEN numStates - 1
  ELSE IF RLess(rand, cdf[j]) THEN j
  ELSE SampleOutcome(rand, cdf, j + 1, numStates)

\* the outer loop one draw short (i < shots - 1); SamplingAddsShots does not
\* survive it
RECURSIVE DrawShotsOneShort(_, _, _, _, _)
DrawShotsOneShort(counts, rands, i, cdf, numStates) ==
  IF i >= Len(rands) THEN counts
  ELSE LET outcome == SampleOutcome(rands[i], cdf, 0, numStates)
       IN DrawShotsOneShort([counts EXCEPT ![outcome] = counts[outcome] + 1],
                            rands, i + 1, cdf, numStates)

\* the outer loop of simulate, rands[i] being the i-th Math.random()
RECURSIVE DrawShots(_, _, _, _, _)
DrawShots(counts, rands, i, cdf, numStates) ==
  IF i > Len(rands) THEN counts
  ELSE LET outcome == SampleOutcome(rands[i], cdf, 0, numStates)
       IN DrawShots([counts EXCEPT ![outcome] = counts[outcome] + 1],
                    rands, i + 1, cdf, numStates)

\* const totalMeasured = results.reduce((a, b) => a + b, 0)
RECURSIVE SumCounts(_, _)
SumCounts(counts, n) == IF n = 0 THEN 0 ELSE SumCounts(counts, n - 1) + counts[n - 1]

totalMeasured(counts) == SumCounts(counts, VecLen(counts))

LabFrame == UNCHANGED <<numQubits, numSteps, alignmentMode, history, currentStep, isLocked,
                        amplitudes, simDeps, fileReader>>

\* the visualisation tabs: MeasurementLab is mounted by "measure" and unmounted,
\* its state and the effect of its pending timer lost, by any other tab
setVizMode(mode) ==
  /\ Idle
  /\ vizMode' = mode
  /\ IF mode = vizMode
       THEN UNCHANGED <<results, isSimulating, accumulate, shots, resetDeps, timer>>
       ELSE /\ results' = EmptyVector
            /\ isSimulating' = FALSE
            /\ accumulate' = FALSE
            /\ shots' = 1
            /\ resetDeps' = NoResetDeps
            /\ timer' = NoTimer
  /\ LabFrame /\ UNCHANGED ops

\* the reset effect, [numStates, ...probs]
LabResetEffect ==
  /\ ResetPending
  /\ results' = ZeroCounts(VecLen(amplitudes))
  /\ resetDeps' = ResetDepsOf(amplitudes)
  /\ UNCHANGED <<vizMode, isSimulating, accumulate, shots, timer>>
  /\ LabFrame /\ UNCHANGED ops

\* runExperiment up to setTimeout(simulate, 100)
runExperiment ==
  /\ Idle /\ LabMounted /\ Event
  /\ ~isSimulating
  /\ isSimulating' = TRUE
  /\ timer' = [cdf |-> Cdf(Probs(amplitudes)),
               currentCounts |-> IF accumulate THEN results
                                 ELSE ZeroCounts(VecLen(amplitudes)),
               shots |-> shots,
               numStates |-> VecLen(amplitudes)]
  /\ UNCHANGED <<vizMode, results, accumulate, shots, resetDeps>>
  /\ LabFrame

\* the timer fires: simulate
simulate ==
  /\ Idle /\ LabMounted
  /\ timer # NoTimer
  /\ \E rands \in [1 .. timer.shots -> RandChoices] :
       results' = DrawShots(timer.currentCounts, rands, 1, timer.cdf, timer.numStates)
  /\ isSimulating' = FALSE
  /\ timer' = NoTimer
  /\ UNCHANGED <<vizMode, accumulate, shots, resetDeps>>
  /\ LabFrame /\ UNCHANGED ops

setAccumulate ==
  /\ Idle /\ LabMounted /\ Event
  /\ accumulate' = ~accumulate
  /\ UNCHANGED <<vizMode, results, isSimulating, shots, resetDeps, timer>>
  /\ LabFrame

setShots(n) ==
  /\ Idle /\ LabMounted /\ Event
  /\ ~isSimulating
  /\ shots' = n
  /\ UNCHANGED <<vizMode, results, isSimulating, accumulate, resetDeps, timer>>
  /\ LabFrame

\* the "clear collected data" button
clearResults ==
  /\ Idle /\ LabMounted /\ Event
  /\ accumulate /\ ~AllZero(results) /\ ~isSimulating
  /\ results' = ZeroCounts(VecLen(amplitudes))
  /\ UNCHANGED <<vizMode, isSimulating, accumulate, shots, resetDeps, timer>>
  /\ LabFrame

\* gates dropped on the first cell while the lab is shown
LabDropKinds == {"X", "Y", "H"}

LabInit ==
  AppConstructed /\ vizMode = "statevector" /\ LabConstructed /\ EngineIdle /\ BridgeConstructed /\ ChatConstructed

\* a user event while the lab can be shown, within the budget of the run
LabOp(A) == ops < MaxLabOps /\ A /\ UNCHANGED <<engineVars, hwVars, chatVars>>

LabNext ==
  \/ \E mode \in {"statevector", "measure"} : setVizMode(mode) /\ UNCHANGED <<engineVars, hwVars, chatVars>>
  \/ \E ty \in LabDropKinds : LabOp(handleDrop(ty, 0, 0) /\ UNCHANGED labVars)
  \/ LabOp(handleConfigChange(MinQubits, numSteps) /\ UNCHANGED labVars)
  \/ LabOp(undo /\ UNCHANGED labVars)
  \/ LabOp(runExperiment)
  \/ LabOp(setAccumulate)
  \/ \E n \in 1 .. MaxShots : LabOp(setShots(n))
  \/ LabOp(clearResults)
  \/ simulate /\ UNCHANGED <<engineVars, hwVars, chatVars>>
  \/ LabResetEffect /\ UNCHANGED <<engineVars, hwVars, chatVars>>
  \/ SimulationEffect /\ UNCHANGED <<labVars, engineVars, hwVars, chatVars>>

SpecLab == LabInit /\ [][LabNext]_vars

\* ------------------------------------------------------------------------
\* The sampler of MeasurementLab on its own
\* ------------------------------------------------------------------------
\* values a cumulative sum takes
CdfLevels == {RZero, [p |-> 1, q |-> 0, k |-> 2], RHalf, [p |-> 3, q |-> 0, k |-> 2], ROne}

\* numbers of basis states of the sampled vectors
CdfLengths == {2, 4}

\* cdf arrays as the floating-point additions of runExperiment deliver them:
\* nondecreasing, the last sum possibly short of 1
CdfInputs ==
  UNION {{c \in [0 .. n - 1 -> CdfLevels] : \A j \in 1 .. n - 1 : ~RLess(c[j], c[j - 1])} :
           n \in CdfLengths}

\* the lab shown on the initial circuit, Run clicked, the timer pending
SamplerInit ==
  /\ numQubits = InitQubits
  /\ numSteps = InitSteps
  /\ alignmentMode = "freeform"
  /\ history = <<EmptyGrid(InitSteps, InitQubits)>>
  /\ currentStep = 0
  /\ isLocked = FALSE
  /\ amplitudes = BasisVector(0, InitQubits)
  /\ simDeps = [circuit |-> <<>>, nq |-> InitQubits]
  /\ fileReader = NoFile
  /\ ops = 1
  /\ vizMode = "measure"
  /\ results = ZeroCounts(Pow2(InitQubits))
  /\ isSimulating = TRUE
  /\ accumulate = FALSE
  /\ shots \in 1 .. MaxShots
  /\ resetDeps = ResetDepsOf(amplitudes)
  /\ \E cdf \in CdfInputs :
       timer = [cdf |-> cdf, currentCounts |-> ZeroCounts(VecLen(cdf)),
                shots |-> shots, numStates |-> VecLen(cdf)]
  /\ EngineIdle
  /\ BridgeConstructed /\ ChatConstructed

SamplerNext == simulate /\ UNCHANGED <<engineVars, hwVars, chatVars>>

SpecSampler == SamplerInit /\ [][SamplerNext]_vars

\* ------------------------------------------------------------------------
\* HardwareBridge: the serial connection and the commands of the device
\* ------------------------------------------------------------------------
HardwareTabs == {"visuals", "hardware"}
HardwareModes == {"pwm", "neopixel"}
HardwareCommands == {"next", "prev", "reset"}

\* project files chosen while the bridge is in use
BridgeFiles == {f \in ProjectFiles : f.qubits <= MaxQubits}

\* the gate list applied from the solver while the bridge is in use
BridgeLists == {<< <<"H", 0, NoControl>>, <<"CX", 1, 0>> >>}

\* the tab buttons: leaving a panel unmounts it, and HardwareBridge and
\* ChatInterface mount with their useState defaults; the read loop of an
\* earlier mount goes on, the setMessages of an earlier mount reach nothing
setActiveTab(tab) ==
  /\ Idle
  /\ activeTab' = tab
  /\ IF tab = activeTab THEN UNCHANGED <<hardwareMode, bridge, chatVars>>
     ELSE /\ hardwareMode' = "pwm"
          /\ bridge' = [bridge EXCEPT !.isConnected = FALSE]
          /\ messages' = <<Greeting>>
          /\ isLoading' = FALSE
          /\ requests' = <<>>
  /\ UNCHANGED <<appVars, labVars, engineVars>>

setHardwareMode(mode) ==
  /\ Idle
  /\ activeTab = "hardware"
  /\ hardwareMode' = mode
  /\ UNCHANGED <<activeTab, bridge, appVars, labVars, engineVars, chatVars>>

\* connectSerial, ending in readLoop(r); opening a port that an earlier loop
\* still reads throws and leaves everything as it was
connectSerial ==
  /\ Idle /\ Event
  /\ activeTab = "hardware"
  /\ ~bridge.isConnected /\ ~bridge.reading
  /\ bridge' = [reading |-> TRUE, isConnected |-> TRUE, isLocked |-> isLocked,
                currentStep |-> currentStep, historyLength |-> Len(history)]
  /\ UNCHANGED <<numQubits, numSteps, alignmentMode, history, currentStep, isLocked,
                 amplitudes, simDeps, fileReader, activeTab, hardwareMode>>

disconnectSerial ==
  /\ Idle /\ Event
  /\ activeTab = "hardware"
  /\ bridge.isConnected
  /\ bridge' = NoBridge
  /\ UNCHANGED <<numQubits, numSteps, alignmentMode, history, currentStep, isLocked,
                 amplitudes, simDeps, fileReader, activeTab, hardwareMode>>

\* handleHardwareControl, with the undo and redo it calls, of the render c:
\* the currentStep it sets (the present one where it sets none)
handleHardwareControl(c, action) ==
  IF c.isLocked THEN currentStep
  ELSE IF action = "next"
    THEN IF c.currentStep < c.historyLength - 1 THEN c.currentStep + 1 ELSE currentStep
  ELSE IF action = "prev"
    THEN IF c.currentStep > 0 THEN c.currentStep - 1 ELSE currentStep
  ELSE IF action = "reset" THEN 0
  ELSE currentStep

\* one {"cmd": ...} line read by readLoop
hardwareCommand(action) ==
  /\ Idle /\ Event
  /\ bridge.reading
  /\ currentStep' = handleHardwareControl(bridge, action)
  /\ UNCHANGED <<numQubits, numSteps, alignmentMode, history, isLocked,
                 amplitudes, simDeps, fileReader, hwVars, chatVars>>

\* getQubitData, run in every render of HardwareBridge: the indices at which
\* it reads amplitudes (i below amplitudes.length, and in NeoPixel mode also
\* j = i | (1 << q) for every q below numQubits with bit q of i clear)
getQubitDataReads(mode, amps, nq) ==
  LET numStates == VecLen(amps)
      pairs == {iq \in (0 .. numStates - 1) \X (0 .. nq - 1) : TRUE}
      set == {iq \in pairs : Bit(iq[1], iq[2]) # 0}
      clear == pairs \ set
  IN {iq[1] : iq \in set}
     \cup (IF mode = "neopixel"
             THEN {iq[1] : iq \in clear} \cup {iq[1] + Pow2(iq[2]) : iq \in clear}
             ELSE {})

BridgeInit ==
  AppConstructed /\ vizMode = "statevector" /\ LabConstructed /\ EngineIdle /\ BridgeConstructed /\ ChatConstructed

\* a user event or a device command, within the budget of the run
BridgeOp(A) == ops < MaxBridgeOps /\ A /\ UNCHANGED <<labVars, engineVars, chatVars>>

BridgeNext ==
  \/ \E tab \in HardwareTabs : setActiveTab(tab)
  \/ \E mode \in HardwareModes : setHardwareMode(mode)
  \/ BridgeOp(connectSerial)
  \/ BridgeOp(disconnectSerial)
  \/ \E action \in HardwareCommands : BridgeOp(hardwareCommand(action))
  \/ BridgeOp(handleDrop("Z", 0, 0) /\ UNCHANGED <<hwVars, chatVars>>)
  \/ BridgeOp(handlePopupSelect("DELETE", 0, 0) /\ UNCHANGED <<hwVars, chatVars>>)
  \/ BridgeOp(clearCircuit /\ UNCHANGED <<hwVars, chatVars>>)
  \/ \E list \in BridgeLists : BridgeOp(handleLoadGates(list) /\ UNCHANGED <<hwVars, chatVars>>)
  \/ \E file \in BridgeFiles : BridgeOp(loadProject(file) /\ UNCHANGED <<hwVars, chatVars>>)
  \/ \E q \in {MinQubits, MaxQubits} : BridgeOp(handleConfigChange(q, numSteps) /\ UNCHANGED <<hwVars, chatVars>>)
  \/ BridgeOp(undo /\ UNCHANGED <<hwVars, chatVars>>)
  \/ BridgeOp(redo /\ UNCHANGED <<hwVars, chatVars>>)
  \/ BridgeOp(toggleAlignmentMode("left") /\ UNCHANGED <<hwVars, chatVars>>)
  \/ BridgeOp(toggleLock /\ UNCHANGED <<hwVars, chatVars>>)
  \/ readerOnload /\ UNCHANGED <<labVars, engineVars, hwVars, chatVars>>
  \/ SimulationEffect /\ UNCHANGED <<labVars, engineVars, hwVars, chatVars>>

SpecBridge == BridgeInit /\ [][BridgeNext]_vars

\* ------------------------------------------------------------------------
\* Alignment: compactGrid on grids drawn in freeform mode
\* ------------------------------------------------------------------------
\* what a cell (step, wire) of a 2-wire freeform grid holds after drops: nothing,
\* an H, or a CX whose control is the other wire
AlignCells == {"none", "H", "CX"}

AlignGrid(pick) ==
  [st \in 1 .. MinSteps |->
     [w \in 1 .. MinQubits |->
        LET id == (st - 1) * MinQubits + w
            kind == pick[id]
        IN IF kind = "H" THEN Gate(id, "H", w - 1, NoControl)
           ELSE IF kind = "CX" THEN Gate(id, "CX", w - 1, MinQubits - w)
           ELSE NullGate]]

\* the drop of a CX empties the cell of its control, so a column never holds
\* two CX; a gate dropped later on the control wire of a CX stays
AlignPicks ==
  {pick \in [1 .. MinSteps * MinQubits -> AlignCells] :
     \A st \in 1 .. MinSteps :
       Cardinality({w \in 1 .. MinQubits : pick[(st - 1) * MinQubits + w] = "CX"}) <= 1}

\* projects saved from such grids, one history entry each
AlignFiles ==
  {ProjectFile(<<AlignGrid(pick)>>, 0, MinQubits, MinSteps, "freeform") : pick \in AlignPicks}

AlignInit ==
  AppConstructed /\ vizMode = "statevector" /\ LabConstructed /\ EngineIdle /\ BridgeConstructed /\ ChatConstructed

AlignOp(A) == ops < MaxAlignOps /\ A /\ UNCHANGED <<labVars, engineVars, hwVars, chatVars>>

AlignNext ==
  \/ \E file \in AlignFiles : ops = 0 /\ AlignOp(loadProject(file))
  \/ \E mode \in AlignmentModes : AlignOp(toggleAlignmentMode(mode))
  \/ \E c \in EditCells : AlignOp(handleDrop("Z", c[1], c[2]))
  \/ readerOnload /\ UNCHANGED <<labVars, engineVars, hwVars, chatVars>>
  \/ SimulationEffect /\ UNCHANGED <<labVars, engineVars, hwVars, chatVars>>

SpecAlign == AlignInit /\ [][AlignNext]_vars

\* ------------------------------------------------------------------------
\* ChatInterface: processMessage and the responses it streams
\* ------------------------------------------------------------------------

ChatTabs == {"visuals", "tutor"}

\* what handleSend sends along: no file, or a PDF (an image streams as text does)
ChatFiles == {"none", "pdf"}

\* the synchronous part of processMessage, up to its first await; timestamps
\* are new Date() of the creation, which only grows
processMessage(text, file) ==
  LET userMsg == [role |-> "user", text |-> text, timestamp |-> Len(messages) + 1]
      placeholderMsg == [role |-> "model", text |-> MessageText("model", 0, 0),
                         timestamp |-> Len(messages) + 2]
  IN /\ activeTab = "tutor"
     /\ Len(requests) < MaxChatRequests
     /\ messages' = IF file = "pdf" THEN Append(messages, userMsg)
                    ELSE messages \o <<userMsg, placeholderMsg>>
     /\ isLoading' = TRUE
     /\ requests' = Append(requests, [file |-> file, userMsg |-> userMsg,
                                      finalResponseText |-> 0, running |-> TRUE])
     /\ UNCHANGED <<appVars, labVars, engineVars, hwVars>>

\* Enter in the input field (onKeyDown), which does not look at isLoading;
\* the send button is disabled while isLoading
handleSend(file) ==
  Idle /\ processMessage(MessageText("user", Len(requests) + 1, 0), file)

\* a suggestion chip, shown while messages.length === 1 && !isLoading
handleSuggestionClick ==
  /\ Idle
  /\ Len(messages) = 1 /\ ~isLoading
  /\ processMessage(MessageText("suggestion", 0, 0), "none")

\* 'Analyze current circuit state', shown while currentGates.length > 0 &&
\* !selectedFile && messages.length > 1
handleExplainCurrent ==
  /\ Idle
  /\ Len(flattenedCircuit) > 0 /\ Len(messages) > 1
  /\ processMessage(MessageText("explain", 0, 0), "none")

\* one pass of for await (const chunk of stream): the last message of the
\* list takes the text accumulated by request k
streamChunk(k) ==
  /\ requests[k].running /\ requests[k].file # "pdf"
  /\ requests[k].finalResponseText < MaxChunks
  /\ requests' = [requests EXCEPT ![k].finalResponseText = @ + 1]
  /\ messages' = [messages EXCEPT ![Len(messages)].text =
                    MessageText("model", k, requests[k].finalResponseText + 1)]
  /\ UNCHANGED <<isLoading, appVars, labVars, engineVars, hwVars>>

\* the stream of request k ends: setIsLoading(false)
streamEnd(k) ==
  /\ requests[k].running /\ requests[k].file # "pdf"
  /\ requests' = [requests EXCEPT ![k].running = FALSE]
  /\ isLoading' = FALSE
  /\ UNCHANGED <<messages, appVars, labVars, engineVars, hwVars>>

\* analyzeDocument of request k resolves: its explanation is appended whole
analyzeDocumentResolves(k) ==
  /\ requests[k].running /\ requests[k].file = "pdf"
  /\ requests' = [requests EXCEPT ![k].running = FALSE, ![k].finalResponseText = MaxChunks]
  /\ messages' = Append(messages, [role |-> "model", text |-> MessageText("model", k, MaxChunks),
                                   timestamp |-> Len(messages) + 1])
  /\ isLoading' = FALSE
  /\ UNCHANGED <<appVars, labVars, engineVars, hwVars>>

\* the catch block of request k
chatError(k) ==
  /\ requests[k].running
  /\ requests' = [requests EXCEPT ![k].running = FALSE]
  /\ messages' = Append(messages, [role |-> "model", text |-> MessageText("error", 0, 0),
                                   timestamp |-> Len(messages) + 1])
  /\ isLoading' = FALSE
  /\ UNCHANGED <<appVars, labVars, engineVars, hwVars>>

ChatInit ==
  AppConstructed /\ vizMode = "statevector" /\ LabConstructed /\ EngineIdle /\ BridgeConstructed /\ ChatConstructed

ChatNext ==
  \/ \E tab \in ChatTabs : setActiveTab(tab)
  \/ \E file \in ChatFiles : handleSend(file)
  \/ handleSuggestionClick
  \/ handleExplainCurrent
  \/ \E k \in 1 .. Len(requests) : streamChunk(k)
  \/ \E k \in 1 .. Len(requests) : streamEnd(k)
  \/ \E k \in 1 .. Len(requests) : analyzeDocumentResolves(k)
  \/ \E k \in 1 .. Len(requests) : chatError(k)
  \/ ops < MaxChatEdits /\ handleDrop("Z", 0, 0) /\ UNCHANGED <<labVars, engineVars, hwVars, chatVars>>
  \/ SimulationEffect /\ UNCHANGED <<labVars, engineVars, hwVars, chatVars>>

SpecChat == ChatInit /\ [][ChatNext]_vars

\* ------------------------------------------------------------------------
\* UnitaryMatrixVisualizer: the simulation re-implemented locally
\* ------------------------------------------------------------------------
\* the loop of the local applyGate with u01 and u10 exchanged;
\* UnitaryColumnsAgree does not survive it
RECURSIVE applyGateLocalTransposed(_, _, _, _, _, _)
applyGateLocalTransposed(state, newState, u, target, i, halfStates) ==
  IF i >= halfStates THEN newState
  ELSE LET low == i % Pow2(target)
           high == (i - low) * 2
           idx0 == high + low
           idx1 == IF Bit(idx0, target) = 0 THEN idx0 + Pow2(target) ELSE idx0
           a0 == state[idx0]
           a1 == state[idx1]
       IN applyGateLocalTransposed(
            state,
            [newState EXCEPT ![idx0] = add(mul(u[1], a0), mul(u[3], a1)),
                             ![idx1] = add(mul(u[2], a0), mul(u[4], a1))],
            u, target, i + 1, halfStates)

\* for (let i = 0; i < halfStates; i++) of the local applyGate:
\* low = i & lowMask, high = (i & ~lowMask) << 1, idx0 = high | low,
\* idx1 = idx0 | (1 << target)
RECURSIVE applyGateLocal(_, _, _, _, _, _)
applyGateLocal(state, newState, u, target, i, halfStates) ==
  IF i >= halfStates THEN newState
  ELSE LET low == i % Pow2(target)
           high == (i - low) * 2
           idx0 == high + low
           idx1 == IF Bit(idx0, target) = 0 THEN idx0 + Pow2(target) ELSE idx0
           a0 == state[idx0]
           a1 == state[idx1]
       IN applyGateLocal(
            state,
            [newState EXCEPT ![idx0] = add(mul(u[1], a0), mul(u[2], a1)),
                             ![idx1] = add(mul(u[3], a0), mul(u[4], a1))],
            u, target, i + 1, halfStates)

\* for (let i = 0; i < halfStates; i++) of the local applyControlledGate
RECURSIVE applyControlledGateLocal(_, _, _, _, _, _, _)
applyControlledGateLocal(state, newState, type, ctrl, tgt, i, halfStates) ==
  IF i >= halfStates THEN newState
  ELSE LET low == i % Pow2(tgt)
           high == (i - low) * 2
           idx0 == high + low
           idx1 == IF Bit(idx0, tgt) = 0 THEN idx0 + Pow2(tgt) ELSE idx0
           a0 == state[idx0]
           a1 == state[idx1]
           written ==
             IF Bit(idx0, ctrl) = 0 THEN newState
             ELSE IF type = "CX" THEN [newState EXCEPT ![idx0] = a1, ![idx1] = a0]
             ELSE IF type = "CZ" THEN [newState EXCEPT ![idx1] = mulS(a1, RInt(-1))]
             ELSE IF type = "CY"
               THEN [newState EXCEPT ![idx0] = Cx(a1.i, RNeg(a1.r)),
                                     ![idx1] = Cx(RNeg(a0.i), a0.r)]
             ELSE IF type = "CS" THEN [newState EXCEPT ![idx1] = Cx(RNeg(a1.i), a1.r)]
             ELSE newState
       IN applyControlledGateLocal(state, written, type, ctrl, tgt, i + 1, halfStates)

\* the matrices the local gates.forEach hands to applyGate
LocalMatrix(type) ==
  IF type = "H" THEN <<Cx(INV_SQRT_2, RZero), Cx(INV_SQRT_2, RZero),
                       Cx(INV_SQRT_2, RZero), Cx(RNeg(INV_SQRT_2), RZero)>>
  ELSE IF type = "X" THEN <<zero, one, one, zero>>
  ELSE IF type = "Y" THEN <<zero, Cx(RZero, RInt(-1)), Cx(RZero, ROne), zero>>
  ELSE IF type = "Z" THEN <<one, zero, zero, Cx(RInt(-1), RZero)>>
  ELSE IF type = "S" THEN <<one, zero, zero, Cx(RZero, ROne)>>
  ELSE <<one, zero, zero, Cx(COS_PI_4, SIN_PI_4)>>

\* body of the local gates.forEach
LocalGate(state, gate, nq) ==
  LET T == gate.target
      C == gate.control
      halfStates == Pow2(nq) \div 2
  IN IF T >= nq \/ (C # NoControl /\ C >= nq) THEN state
     ELSE IF gate.type \in {"H", "X", "Y", "Z", "S", "T"}
       THEN applyGateLocal(state, state, LocalMatrix(gate.type), T, 0, halfStates)
     ELSE IF C # NoControl
       THEN applyControlledGateLocal(state, state, gate.type, C, T, 0, halfStates)
     ELSE state

RECURSIVE runSimulationLocal(_, _, _, _)
runSimulationLocal(state, gates, from, nq) ==
  IF from > Len(gates) THEN state
  ELSE runSimulationLocal(LocalGate(state, gates[from], nq) @@ EmptyVector,
                          gates, from + 1, nq)

\* cols: column k is runSimulation(basisVector) for basisVector[k] = one
matrix(gates, nq) ==
  [k \in 0 .. Pow2(nq) - 1 |->
     runSimulationLocal([idx \in 0 .. Pow2(nq) - 1 |-> IF idx = k THEN one ELSE zero],
                        gates, 1, nq)]

\* ------------------------------------------------------------------------
\* EntanglementVisualizer
\* ------------------------------------------------------------------------
\* const numQubits = Math.log2(numStates); -1 stands for the -Infinity of an
\* empty vector, which no loop bound and no comparison below tells from it
Log2Len(amps) ==
  IF VecLen(amps) = 0 THEN -1
  ELSE CHOOSE e \in 0 .. VecLen(amps) : Pow2(e) = VecLen(amps)

\* positions.forEach((bitPos, i) => { if ((val & (1 << i)) !== 0) acc |= (1 << bitPos) })
RECURSIVE SpreadBits(_, _, _, _)
SpreadBits(acc, val, positions, i) ==
  IF i > Len(positions) THEN acc
  ELSE LET bitPos == positions[i]
           next == IF Bit(val, i - 1) # 0 /\ Bit(acc, bitPos) = 0
                     THEN acc + Pow2(bitPos) ELSE acc
       IN SpreadBits(next, val, positions, i + 1)

\* for (q < numQubits) if (!keepIndices.includes(q)) traceIndices.push(q)
RECURSIVE TraceIndices(_, _, _)
TraceIndices(nq, keepIndices, q) ==
  IF q >= nq THEN <<>>
  ELSE (IF \E i \in 1 .. Len(keepIndices) : keepIndices[i] = q THEN <<>> ELSE <<q>>)
       \o TraceIndices(nq, keepIndices, q + 1)

\* amplitudes[full] || {r:0, i:0}
AmpOr(amps, full) == IF full \in DOMAIN amps THEN amps[full] ELSE zero

\* the product without the conjugation; ReducedHermitianTraceOne does not
\* survive it
OuterTermPlain(ampU, ampV) == mul(ampU, ampV)

\* ampU * conj(ampV)
OuterTerm(ampU, ampV) ==
  Cx(RAdd(RMul(ampU.r, ampV.r), RMul(ampU.i, ampV.i)),
     RSub(RMul(ampU.i, ampV.r), RMul(ampU.r, ampV.i)))

\* what the trace configuration k adds to rho[u * dim + v]
RhoTerm(amps, keepIndices, traceIndices, u, v, k) ==
  LET traceVal == SpreadBits(0, k, traceIndices, 1)
      fullU == SpreadBits(traceVal, u, keepIndices, 1)
      fullV == SpreadBits(traceVal, v, keepIndices, 1)
  IN OuterTerm(AmpOr(amps, fullU), AmpOr(amps, fullV))

\* rho[u * dim + v]: the terms of the trace configurations lo <= k < hi, summed
RECURSIVE RhoEntry(_, _, _, _, _, _, _)
RhoEntry(amps, keepIndices, traceIndices, u, v, lo, hi) ==
  IF hi - lo = 1 THEN RhoTerm(amps, keepIndices, traceIndices, u, v, lo)
  ELSE LET mid == (lo + hi) \div 2
       IN add(RhoEntry(amps, keepIndices, traceIndices, u, v, lo, mid),
              RhoEntry(amps, keepIndices, traceIndices, u, v, mid, hi))

getReducedDensityMatrix(amps, nq, keepIndices) ==
  LET dim == Pow2(Len(keepIndices))
      traceIndices == TraceIndices(nq, keepIndices, 0)
      traceDim == Pow2(Len(traceIndices))
  IN [idx \in 0 .. dim * dim - 1 |->
        RhoEntry(amps, keepIndices, traceIndices, idx \div dim, idx % dim, 0, traceDim)]
     @@ EmptyVector

\* Math.sqrt, Math.log2 and the decimal thresholds of the analysis. A result
\* that is not a number (p + q sqrt2) / 2^k is Inexact, and so is everything
\* computed from it.
Inexact == [p |-> 0, q |-> 0, k |-> -1]

EAdd(a, b) == IF a = Inexact \/ b = Inexact THEN Inexact ELSE RAdd(a, b)

ESub(a, b) == IF a = Inexact \/ b = Inexact THEN Inexact ELSE RSub(a, b)

EMul(a, b) == IF a = Inexact \/ b = Inexact THEN Inexact ELSE RMul(a, b)

RAbs(a) == IF RSign(a) < 0 THEN RNeg(a) ELSE a

RMax(a, b) == IF RLess(a, b) THEN b ELSE a

\* Math.sqrt(x): the root (a + b sqrt2) / 2^m >= 0 when x has one
RSqrt(x) ==
  IF x = Inexact THEN Inexact
  ELSE IF RSign(x) < 0 THEN Inexact
  ELSE LET k2 == x.k + (x.k % 2)
           p2 == x.p * Pow2(k2 - x.k)
           q2 == x.q * Pow2(k2 - x.k)
           as == {a \in (0 - p2) .. p2 : a * a <= p2}
           bs == {b \in (0 - p2) .. p2 : 2 * b * b <= p2}
           roots == {ab \in as \X bs :
                       /\ ab[1] * ab[1] + 2 * ab[2] * ab[2] = p2
                       /\ 2 * ab[1] * ab[2] = q2
                       /\ RSign([p |-> ab[1], q |-> ab[2], k |-> 0]) >= 0}
       IN IF roots = {} THEN Inexact
          ELSE LET ab == CHOOSE r \in roots : TRUE
               IN Reduce(ab[1], ab[2], k2 \div 2)

\* Math.log2(x), for x = 2^(-k) and x = sqrt2 * 2^(-k)
RLog2(x) ==
  IF x = Inexact THEN Inexact
  ELSE IF x.p = 1 /\ x.q = 0 THEN RInt(0 - x.k)
  ELSE IF x.p = 0 /\ x.q = 1 THEN Reduce(1 - 2 * x.k, 0, 1)
  ELSE Inexact

\* 1e-9, 0.99 and 0.4 cut to binary places (2^-30, 507/512, 205/512), and
\* tan(0.1) = 0.100334... (6575/65536)
EPS_1E9 == [p |-> 1, q |-> 0, k |-> 30]
C_0_99 == [p |-> 507, q |-> 0, k |-> 9]
P_0_4 == [p |-> 205, q |-> 0, k |-> 9]
TAN_0_1 == [p |-> 6575, q |-> 0, k |-> 16]

\* the determinant taken from the diagonal alone; ProductStatesHaveZeroEntropy
\* does not survive it
Det2Diagonal(rho) == RMul(rho[0].r, rho[3].r)

\* const det = rho00 * rho11 - (rho01.r * rho01.r + rho01.i * rho01.i)
Det2(rho) ==
  RSub(RMul(rho[0].r, rho[3].r), RAdd(RMul(rho[1].r, rho[1].r), RMul(rho[1].i, rho[1].i)))

calculateEigenvalues(rho) ==
  LET det == Det2(rho)
      diff == RSqrt(RMax(RZero, RSub(ROne, RMul(RInt(4), det))))
      l1 == EMul(EAdd(ROne, diff), RHalf)
      l2 == EMul(ESub(ROne, diff), RHalf)
  IN <<l1, l2>>

\* const safeLog = (x) => x > 1e-9 ? x * Math.log2(x) : 0
safeLog(x) ==
  IF x = Inexact THEN Inexact
  ELSE IF RLess(EPS_1E9, x) THEN EMul(x, RLog2(x))
  ELSE RZero

calculateEntropy(eigenvalues) ==
  ESub(RZero, EAdd(safeLog(eigenvalues[1]), safeLog(eigenvalues[2])))

\* entropy: Math.abs(s) < 1e-9 ? 0 : s
ClampEntropy(s) ==
  IF s = Inexact THEN Inexact
  ELSE IF RLess(RAbs(s), EPS_1E9) THEN RZero
  ELSE s

qubitData(amps) ==
  [q \in 0 .. Log2Len(amps) - 1 |->
     LET rho == getReducedDensityMatrix(amps, Log2Len(amps), <<q>>)
         eig == calculateEigenvalues(rho)
     IN [id |-> q, entropy |-> ClampEntropy(calculateEntropy(eig)), eigenvalues |-> eig]]
  @@ EmptyVector

\* the remaining qubit taken to be qubit 0 for every pair (the || 0 fallback
\* alone); MutualInfoByComplement does not survive it
ThirdQubitFallback(i, j) == 0

\* [0,1,2].find(x => x!==i && x!==j) || 0
ThirdQubit(i, j) ==
  IF \E x \in 0 .. 2 : x # i /\ x # j
    THEN CHOOSE x \in 0 .. 2 : x # i /\ x # j /\ \A y \in 0 .. x - 1 : y = i \/ y = j
    ELSE 0

\* the entry pushed for the pair (i, j)
MutualInfoEntry(data, nq, i, j) ==
  LET s_ab == IF nq = 3 THEN data[ThirdQubit(i, j)].entropy ELSE RZero
      sum == ESub(EAdd(data[i].entropy, data[j].entropy), s_ab)
  IN [source |-> i, target |-> j,
      value |-> IF sum = Inexact THEN Inexact ELSE RMax(RZero, sum)]

\* for (j = from; j < numQubits; j++) inside for (i ...)
RECURSIVE MutualInfoPairs(_, _, _, _)
MutualInfoPairs(data, nq, i, j) ==
  IF i >= nq THEN <<>>
  ELSE IF j >= nq THEN MutualInfoPairs(data, nq, i + 1, i + 2)
  ELSE <<MutualInfoEntry(data, nq, i, j)>> \o MutualInfoPairs(data, nq, i, j + 1)

\* mutualInfo without its first line; MutualInfoOnlyUpToThree does not
\* survive it
mutualInfoUnlimited(amps) == MutualInfoPairs(qubitData(amps), Log2Len(amps), 0, 1)

mutualInfo(amps) ==
  IF Log2Len(amps) > 3 THEN <<>>
  ELSE MutualInfoPairs(qubitData(amps), Log2Len(amps), 0, 1)

\* Math.abs(Math.atan2(a.i*b.r - a.r*b.i, a.r*b.r + a.i*b.i)) < 0.1
PhaseNearZero(a, b) ==
  LET y == RSub(RMul(a.i, b.r), RMul(a.r, b.i))
      x == RAdd(RMul(a.r, b.r), RMul(a.i, b.i))
  IN \/ RSign(x) = 0 /\ RSign(y) = 0
     \/ RSign(x) > 0 /\ RLess(RAbs(y), RMul(TAN_0_1, x))

\* bellStateName with the two pairs exchanged; BellStateClassifiedByPair does
\* not survive it
BellStateNamePairsSwapped(amps, concurrence) ==
  IF concurrence = Inexact THEN "unknown"
  ELSE IF ~RLess(C_0_99, concurrence) THEN ""
  ELSE IF RLess(P_0_4, magSq(amps[1])) /\ RLess(P_0_4, magSq(amps[2]))
    THEN (IF PhaseNearZero(amps[1], amps[2]) THEN "Phi+" ELSE "Phi-")
  ELSE IF RLess(P_0_4, magSq(amps[0])) /\ RLess(P_0_4, magSq(amps[3]))
    THEN (IF PhaseNearZero(amps[0], amps[3]) THEN "Psi+" ELSE "Psi-")
  ELSE ""

\* bellStateName; "unknown" when the concurrence is Inexact
BellStateName(amps, concurrence) ==
  IF concurrence = Inexact THEN "unknown"
  ELSE IF ~RLess(C_0_99, concurrence) THEN ""
  ELSE IF RLess(P_0_4, magSq(amps[0])) /\ RLess(P_0_4, magSq(amps[3]))
    THEN (IF PhaseNearZero(amps[0], amps[3]) THEN "Phi+" ELSE "Phi-")
  ELSE IF RLess(P_0_4, magSq(amps[1])) /\ RLess(P_0_4, magSq(amps[2]))
    THEN (IF PhaseNearZero(amps[1], amps[2]) THEN "Psi+" ELSE "Psi-")
  ELSE ""

\* concurrence without the factor 2; BellStateMeasures does not survive it
ConcurrenceOfHalved(eig) == RSqrt(EMul(eig[1], eig[2]))

\* const concurrence = 2 * Math.sqrt(l1 * l2)
ConcurrenceOf(eig) == EMul(RInt(2), RSqrt(EMul(eig[1], eig[2])))

\* if (numQubits !== 2) return null
NoAnalysis ==
  [concurrence |-> Inexact, chsh |-> Inexact, bellStateName |-> "null",
   eigenvalues |-> <<Inexact, Inexact>>]

bellAnalysis(amps) ==
  IF Log2Len(amps) # 2 THEN NoAnalysis
  ELSE LET eig == qubitData(amps)[0].eigenvalues
           concurrence == ConcurrenceOf(eig)
           chsh == EMul(RInt(2), RSqrt(EAdd(ROne, EMul(concurrence, concurrence))))
       IN [concurrence |-> concurrence, chsh |-> chsh,
           bellStateName |-> BellStateName(amps, concurrence), eigenvalues |-> eig]

\* ------------------------------------------------------------------------
\* Properties
\* ------------------------------------------------------------------------
Last(seq) == seq[Len(seq)]

SingleOn(type, t) == Gate(0, type, t, NoControl)

\* qubits a gate acts on
QubitsOf(g) == {g.target} \cup (IF g.control = NoControl THEN {} ELSE {g.control})

\* <<type, target, control>> of every gate of a list, ids left out
Shape(gates) ==
  [k \in 1 .. Len(gates) |-> <<gates[k].type, gates[k].target, gates[k].control>>]

\* C1: after every gate of a fold over any list of H, X, Y, Z, S, T, CX, CY, CZ,
\* CS gates with qubit indices in [0, N), started from a basis state (the
\* all-zero state among them), the squared magnitudes of the amplitudes sum to 1.
NormPreserved ==
  \A k \in 1 .. Len(simTrace) : NormSq(simTrace[k]) = ROne

\* C1, reached: a 3-qubit fold from the all-zero state through H and a CY
\* controlled by the qubit H acted on, the CY changing the vector
NormPreservedWitness ==
  /\ simQubits = 3 /\ simBasis = 0 /\ Len(simGates) = 2
  /\ simGates[1].type = "H" /\ simGates[2].type = "CY"
  /\ simGates[2].control = simGates[1].target
  /\ simTrace[3] # simTrace[2]

\* C2: for N = 2 and each of the four basis inputs, CX(control 0, target 1)
\* yields one basis state with amplitude 1: the input itself when bit 0 is clear
\* (indices 0, 2), the input with bit 1 flipped when bit 0 is set (1 -> 3, 3 -> 1).
CXTruthTable ==
  (simQubits = 2 /\ Len(simGates) >= 1 /\ simGates[1] = Gate(0, "CX", 1, 0))
    => simTrace[2] = [idx \in 0 .. 3 |->
                        IF idx = <<0, 3, 2, 1>>[simBasis + 1] THEN one ELSE zero]

\* C2, reached: the control-set input (index 1) has gone to index 3
CXTruthTableWitness ==
  /\ simQubits = 2 /\ simBasis = 1
  /\ simGates = <<Gate(0, "CX", 1, 0)>>
  /\ simTrace[2][3] = one /\ simTrace[2][1] = zero

\* C4: H applied twice, or X applied twice, on any target t < N gives back the
\* vector it was applied to: for the vector a fold has produced and every t, and
\* for every two equal consecutive H or X gates of the fold.
HXInvolution ==
  /\ \A ty \in {"H", "X"}, t \in 0 .. simQubits - 1 :
       DispatchGate(DispatchGate(Last(simTrace), SingleOn(ty, t), simQubits),
                    SingleOn(ty, t), simQubits) = Last(simTrace)
  /\ \A k \in 1 .. Len(simGates) - 1 :
       (simGates[k].type \in {"H", "X"} /\ simGates[k + 1] = simGates[k])
         => simTrace[k + 2] = simTrace[k]

\* C4, reached: a fold of two equal H gates on 3 qubits, the first changing the
\* vector and the second restoring it
HXInvolutionWitness ==
  /\ simQubits = 3 /\ Len(simGates) = 2
  /\ simGates[1].type = "H" /\ simGates[2] = simGates[1]
  /\ simTrace[2] # simTrace[1] /\ simTrace[3] = simTrace[1]

\* C5: when the last two gates of a fold act on disjoint qubits, applying them
\* in the other order to the vector they were applied to gives the same vector.
DisjointGatesCommute ==
  Len(simGates) >= 2 =>
    LET n == Len(simGates)
        g1 == simGates[n - 1]
        g2 == simGates[n]
    IN QubitsOf(g1) \cap QubitsOf(g2) = {}
         => simTrace[n + 1] =
              DispatchGate(DispatchGate(simTrace[n - 1], g2, simQubits), g1, simQubits)

\* C5, reached: CX(control 0, target 1) then H on qubit 2 from the input with
\* qubit 0 set, both gates changing the vector
DisjointGatesCommuteWitness ==
  /\ simQubits = 3 /\ simBasis = 1
  /\ simGates = <<Gate(0, "CX", 1, 0), SingleOn("H", 2)>>
  /\ simTrace[2] # simTrace[1] /\ simTrace[3] # simTrace[2]

\* C6: a controlled gate with control c and target t leaves both amplitudes of
\* every pair (idx0, idx0 + 2^t) whose idx0 has bit c clear as they were.
ControlClearUnchanged ==
  (Len(simGates) >= 1 /\ Last(simGates).type \in CONTROLLED_TYPES) =>
    LET n == Len(simTrace)
        c == Last(simGates).control
        t == Last(simGates).target
    IN \A idx0 \in 0 .. Pow2(simQubits) - 1 :
         ((idx0 \div Pow2(t)) % 2 = 0 /\ (idx0 \div Pow2(c)) % 2 = 0)
           => /\ simTrace[n][idx0] = simTrace[n - 1][idx0]
              /\ simTrace[n][idx0 + Pow2(t)] = simTrace[n - 1][idx0 + Pow2(t)]

\* C6, reached: H on qubit 0 then CX(control 0, target 1) from the all-zero
\* state: the control-clear pair (0, 2) keeps 1/sqrt2 at index 0 while the
\* control-set pair (1, 3) is exchanged
ControlClearUnchangedWitness ==
  /\ simQubits = 3 /\ simBasis = 0
  /\ simGates = <<SingleOn("H", 0), Gate(0, "CX", 1, 0)>>
  /\ simTrace[3][0] = Cx(INV_SQRT_2, RZero)
  /\ simTrace[3][3] = Cx(INV_SQRT_2, RZero) /\ simTrace[2][3] = zero

\* the amplitudes C3 names: 1/sqrt2 at index 0 and at index 2^n - 1, 0 elsewhere
GHZVector(n) ==
  [idx \in 0 .. Pow2(n) - 1 |->
     IF idx = 0 \/ idx = Pow2(n) - 1 THEN Cx(INV_SQRT_2, RZero) ELSE zero]

\* C3: once the simulation has run on the circuit H on qubit 0, CX(0,1) with
\* N = 2, or H on qubit 0, CX(0,1), CX(1,2) with N = 3, the published amplitudes
\* are 1/sqrt2 at index 0 and at index 2^N - 1 and 0 at every other index.
BellAndGHZ ==
  /\ (Idle /\ numQubits = 2
        /\ Shape(flattenedCircuit) = << <<"H", 0, NoControl>>, <<"CX", 1, 0>> >>)
       => amplitudes = GHZVector(2)
  /\ (Idle /\ numQubits = 3
        /\ Shape(flattenedCircuit) =
             << <<"H", 0, NoControl>>, <<"CX", 1, 0>>, <<"CX", 2, 1>> >>)
       => amplitudes = GHZVector(3)

\* C3, reached: the GHZ example loaded on 3 qubits and simulated
BellAndGHZWitness ==
  /\ Idle /\ numQubits = 3
  /\ Shape(flattenedCircuit) = << <<"H", 0, NoControl>>, <<"CX", 1, 0>>, <<"CX", 2, 1>> >>
  /\ amplitudes[0] = Cx(INV_SQRT_2, RZero) /\ amplitudes[7] = Cx(INV_SQRT_2, RZero)

\* C7: every gate of the flattened circuit the simulation is handed has its
\* target in [0, N), its control (when present) in [0, N), and target # control.
GatesHandedAreValid ==
  \A k \in 1 .. Len(flattenedCircuit) :
    LET g == flattenedCircuit[k]
    IN /\ g.target \in 0 .. numQubits - 1
       /\ g.control = NoControl \/ g.control \in 0 .. numQubits - 1
       /\ g.target # g.control

\* C8: numQubits never exceeds the ceiling of the settings slider.
QubitCountCapped == numQubits <= MaxQubits

\* C9: once the effects have run, the published amplitudes are the fold of the
\* gate application over the flattened grid of history[currentStep], started
\* from amplitude 1 at index 0 and 0 at the other 2^N - 1 indices.
AmplitudesAreFold ==
  Idle => amplitudes = runSimulation([idx \in 0 .. Pow2(numQubits) - 1 |->
                                        IF idx = 0 THEN one ELSE zero],
                                     flattenedCircuit, numQubits)

\* C9, reached: an H placed and undone: the amplitudes published for the empty
\* grid are those of the all-zero state again, not those left by the H
AmplitudesAreFoldWitness ==
  /\ Idle /\ currentStep = 0 /\ Len(history) = 2
  /\ flattenedCircuit = <<>>
  /\ \E k \in 1 .. Len(Flatten(history[2])) : Flatten(history[2])[k].type = "H"
  /\ amplitudes[0] = one

\* some squared magnitude, or the number of amplitudes, differs between a and b
DistributionDiffers(a, b) ==
  \/ VecLen(a) # VecLen(b)
  \/ \E idx \in DOMAIN a : magSq(a[idx]) # magSq(b[idx])

HistogramNeverStale ==
  (LabMounted /\ Idle) =>
    /\ DOMAIN results = DOMAIN amplitudes
    /\ \A idx \in DOMAIN results : results[idx] > 0 => magSq(amplitudes[idx]) # RZero

\* indices j of a cdf with r < cdf[j]
Hits(r, cdf) == {j \in DOMAIN cdf : RLess(r, cdf[j])}

\* C12: for every draw r and every cdf a pending run holds, the sampled outcome
\* is the smallest index j with r < cdf[j], the last index numStates - 1 when
\* there is none, and always an index in [0, numStates)
SamplingSmallestIndex ==
  timer # NoTimer =>
    \A r \in RandChoices :
      LET outcome == SampleOutcome(r, timer.cdf, 0, timer.numStates)
          hits == Hits(r, timer.cdf)
      IN /\ outcome \in 0 .. timer.numStates - 1
         /\ hits # {} => outcome \in hits /\ \A j \in hits : outcome <= j
         /\ hits = {} => outcome = timer.numStates - 1

\* a run over four basis states is complete, one of its draws having selected
\* an interior index and another the last index
SamplingSmallestIndexWitness ==
  /\ timer = NoTimer /\ ~isSimulating
  /\ DOMAIN results = 0 .. 3
  /\ results[1] > 0 /\ results[3] > 0

\* the click on Run and the firing of its timer, as steps
RunClicked == timer = NoTimer /\ timer' # NoTimer

RunCompleted == timer # NoTimer /\ timer' = NoTimer /\ vizMode' = "measure"

\* C13: a completed sampling run of `shots` draws adds exactly `shots` to the
\* total of the histogram it started from: the run starts from the histogram of
\* the click when accumulate is requested and from zero otherwise, no count of
\* that buffer decreases, and the published total is the buffer's total plus
\* shots (shots alone without accumulate)
SamplingAddsShots ==
  [][/\ RunClicked =>
          /\ timer'.shots = shots
          /\ accumulate => timer'.currentCounts = results
          /\ ~accumulate => /\ AllZero(timer'.currentCounts)
                             /\ DOMAIN timer'.currentCounts = DOMAIN amplitudes
     /\ RunCompleted =>
          /\ DOMAIN results' = DOMAIN timer.currentCounts
          /\ \A idx \in DOMAIN results' : results'[idx] >= timer.currentCounts[idx]
          /\ totalMeasured(results') = totalMeasured(timer.currentCounts) + timer.shots
          /\ AllZero(timer.currentCounts) => totalMeasured(results') = timer.shots]_vars

\* two runs have accumulated into one histogram
SamplingAddsShotsWitness ==
  /\ LabMounted /\ accumulate /\ timer = NoTimer /\ ~isSimulating
  /\ results # EmptyVector
  /\ totalMeasured(results) = 2 * shots

\* complex conjugate
Conj(a) == Cx(a.r, RNeg(a.i))

\* C14: for every amplitude vector the engine produces (all of norm 1) and
\* every kept qubit q, the reduced density matrix of q is Hermitian
\* (rho[u,v] is the conjugate of rho[v,u], so the diagonal is real) and has
\* trace 1
ReducedHermitianTraceOne ==
  \A q \in 0 .. simQubits - 1 :
    LET rho == getReducedDensityMatrix(Last(simTrace), simQubits, <<q>>)
    IN /\ \A u, v \in 0 .. 1 : rho[u * 2 + v] = Conj(rho[v * 2 + u])
       /\ add(rho[0], rho[3]) = one

\* a two-gate state whose reduced matrix of some qubit has an off-diagonal
\* entry with an imaginary part, other qubits traced out
ReducedHermitianTraceOneWitness ==
  /\ simQubits >= 2 /\ Len(simGates) = 2
  /\ \E q \in 0 .. simQubits - 1 :
       getReducedDensityMatrix(Last(simTrace), simQubits, <<q>>)[1].i # RZero

\* C15: a state built from the all-zero state with single-qubit gates only
\* (H, X, Y, Z, S, T on any qubits) has, for every qubit, a reduced density
\* matrix of determinant 0, eigenvalues (1, 0) and entropy 0
ProductStatesHaveZeroEntropy ==
  (simBasis = 0 /\ \A k \in 1 .. Len(simGates) : simGates[k].type \in SINGLE_TYPES) =>
    \A q \in 0 .. simQubits - 1 :
      LET data == qubitData(Last(simTrace))[q]
          rho == getReducedDensityMatrix(Last(simTrace), simQubits, <<q>>)
      IN /\ Det2(rho) = RZero
         /\ data.eigenvalues = <<ROne, RZero>>
         /\ data.entropy = RZero

\* H then T on one qubit of several: a superposition with a complex phase
ProductStatesHaveZeroEntropyWitness ==
  /\ simBasis = 0 /\ simQubits = MaxSimQubits
  /\ Shape(simGates) = << <<"H", 1, NoControl>>, <<"T", 1, NoControl>> >>
  /\ qubitData(Last(simTrace))[1].entropy = RZero

\* C16: for the Bell state built by H on qubit 0 then CX(control 0, target 1)
\* with N = 2, the reduced eigenvalues of either qubit are both 1/2, the
\* entropy of either qubit is 1, the concurrence is 1 and the CHSH statistic
\* is 2 sqrt2
BellStateMeasures ==
  (simQubits = 2 /\ simBasis = 0
     /\ Shape(simGates) = << <<"H", 0, NoControl>>, <<"CX", 1, 0>> >>) =>
    LET data == qubitData(Last(simTrace))
        analysis == bellAnalysis(Last(simTrace))
    IN /\ \A q \in 0 .. 1 : /\ data[q].eigenvalues = <<RHalf, RHalf>>
                              /\ data[q].entropy = ROne
       /\ analysis.concurrence = ROne
       /\ analysis.chsh = [p |-> 0, q |-> 2, k |-> 0]

\* the Bell circuit has run and its analysis reports a violation of the
\* classical bound 2
BellStateMeasuresWitness ==
  /\ simQubits = 2 /\ simBasis = 0
  /\ Shape(simGates) = << <<"H", 0, NoControl>>, <<"CX", 1, 0>> >>
  /\ RLess(RInt(2), bellAnalysis(Last(simTrace)).chsh)

\* <<type, target, control>> of the gates of a library circuit
ExampleShape(idx) ==
  [k \in 1 .. Len(CIRCUIT_EXAMPLES[idx]) |->
     <<CIRCUIT_EXAMPLES[idx][k][1], CIRCUIT_EXAMPLES[idx][k][2], CIRCUIT_EXAMPLES[idx][k][3]>>]

\* names of the library circuits 1 to 4
LibraryBellNames == <<"Phi+", "Phi-", "Psi+", "Psi-">>

\* library circuit idx has been simulated on two qubits
LibraryBellSimulated(idx) ==
  Idle /\ numQubits = 2 /\ Shape(flattenedCircuit) = ExampleShape(idx)

\* the concurrence of a two-qubit amplitude vector is within 0.01 of 1
NearMaximalConcurrence ==
  /\ Log2Len(amplitudes) = 2
  /\ bellAnalysis(amplitudes).concurrence # Inexact
  /\ RLess(C_0_99, bellAnalysis(amplitudes).concurrence)

\* both amplitudes of a pair have a squared magnitude above 0.4
Dominates(i, j) ==
  RLess(P_0_4, magSq(amplitudes[i])) /\ RLess(P_0_4, magSq(amplitudes[j]))

\* a * conj(b)
RelativePhase(i, j) == mul(amplitudes[i], Conj(amplitudes[j]))

\* C17 as stated: for a two-qubit system, whenever the concurrence is within
\* 0.01 of 1 the state is classified as exactly one of the four canonical Bell
\* states, and the four library Bell circuits are classified as Phi+, Phi-,
\* Psi+ and Psi- respectively
BellStateAlwaysClassified ==
  /\ NearMaximalConcurrence =>
       bellAnalysis(amplitudes).bellStateName \in {"Phi+", "Phi-", "Psi+", "Psi-"}
  /\ \A idx \in 1 .. 4 :
       LibraryBellSimulated(idx) =>
         bellAnalysis(amplitudes).bellStateName = LibraryBellNames[idx]

\* C17, amended: whenever the concurrence is within 0.01 of 1, the state is
\* named Phi when |00> and |11> both have a squared magnitude above 0.4, Psi
\* when they do not and |01> and |10> both have, and is given no name when
\* neither pair dominates; the name carries + when the two amplitudes are in
\* phase and - when their relative phase is a quarter turn or more away; the
\* four library Bell circuits are classified as Phi+, Phi-, Psi+ and Psi-
BellStateClassifiedByPair ==
  /\ NearMaximalConcurrence =>
       LET name == bellAnalysis(amplitudes).bellStateName
           pair == IF Dominates(0, 3) THEN <<0, 3>> ELSE <<1, 2>>
           phase == RelativePhase(pair[1], pair[2])
       IN /\ Dominates(0, 3) => name \in {"Phi+", "Phi-"}
          /\ (~Dominates(0, 3) /\ Dominates(1, 2)) => name \in {"Psi+", "Psi-"}
          /\ (~Dominates(0, 3) /\ ~Dominates(1, 2)) => name = ""
          /\ (name # "" /\ phase.i = RZero /\ RSign(phase.r) > 0) => name \in {"Phi+", "Psi+"}
          /\ (name # "" /\ RSign(phase.r) <= 0) => name \in {"Phi-", "Psi-"}
  /\ \A idx \in 1 .. 4 :
       LibraryBellSimulated(idx) =>
         bellAnalysis(amplitudes).bellStateName = LibraryBellNames[idx]

\* the fourth library circuit has been simulated on two qubits and named
BellStateClassifiedByPairWitness ==
  /\ LibraryBellSimulated(4)
  /\ NearMaximalConcurrence
  /\ bellAnalysis(amplitudes).bellStateName = "Psi-"

\* C18: for a total qubit count above 3 the pairwise mutual information is
\* the empty list (no pair, no approximated value); for a count up to 3 it
\* holds one entry for every pair i < j and no other
MutualInfoOnlyUpToThree ==
  LET nq == Log2Len(amplitudes)
      mi == mutualInfo(amplitudes)
      pairs == {ij \in (0 .. nq - 1) \X (0 .. nq - 1) : ij[1] < ij[2]}
  IN /\ nq > 3 => mi = <<>>
     /\ nq <= 3 => /\ {<<mi[k].source, mi[k].target>> : k \in 1 .. Len(mi)} = pairs
                   /\ Len(mi) = Cardinality(pairs)

\* four qubits, two of them entangled (entropy 1), and no pair reported
MutualInfoOnlyUpToThreeWitness ==
  /\ Idle /\ Log2Len(amplitudes) = 4
  /\ qubitData(amplitudes)[0].entropy = ROne
  /\ qubitData(amplitudes)[1].entropy = ROne
  /\ mutualInfo(amplitudes) = <<>>

\* C19: column k of the matrix built by UnitaryMatrixVisualizer is the
\* amplitude vector the gate loop of App produces when the same gate list is
\* applied to basis state k (column 0: the amplitude vector of the main
\* simulation), for every gate list and every k
UnitaryColumnsAgree ==
  matrix(simGates, simQubits)[simBasis] = Last(simTrace)

\* a column other than the first, of a circuit of a superposing gate and a
\* controlled gate on the largest register
UnitaryColumnsAgreeWitness ==
  /\ simQubits = MaxSimQubits /\ simBasis = Pow2(simQubits) - 1
  /\ Len(simGates) = 2
  /\ simGates[1].type = "H" /\ simGates[2].type = "CY"
  /\ simGates[2].control = simGates[1].target /\ simGates[2].target # simGates[1].target
  /\ matrix(simGates, simQubits)[simBasis] # BasisVector(simBasis, simQubits)

\* C20: for N = simQubits and every target bit t < N, the iterations
\* i = 0 .. 2^(N-1) - 1 of the single-qubit gate loop give 2^(N-1) distinct
\* pairs (idx0, idx1), each with bit t of idx0 clear and idx1 equal to idx0
\* with bit t set; no index lies in two pairs and every basis index
\* 0 .. 2^N - 1 lies in exactly one
LoopPairs(nq, target) ==
  {<<Idx0(i, target), Idx1(i, target)>> : i \in 0 .. Pow2(nq - 1) - 1}

PairsPartitionIndices ==
  \A t \in 0 .. simQubits - 1 :
    LET halfStates == Pow2(simQubits - 1)
        pairs == LoopPairs(simQubits, t)
    IN /\ Cardinality(pairs) = halfStates
       /\ \A i \in 0 .. halfStates - 1 :
            /\ Bit(Idx0(i, t), t) = 0
            /\ Bit(Idx1(i, t), t) = 1
            /\ Idx1(i, t) - Idx0(i, t) = Pow2(t)
            /\ \A q \in 0 .. simQubits - 1 :
                 q # t => Bit(Idx1(i, t), q) = Bit(Idx0(i, t), q)
       /\ \A i, j \in 0 .. halfStates - 1 :
            i # j => {Idx0(i, t), Idx1(i, t)} \cap {Idx0(j, t), Idx1(j, t)} = {}
       /\ \A idx \in 0 .. Pow2(simQubits) - 1 :
            Cardinality({i \in 0 .. halfStates - 1 :
                           idx \in {Idx0(i, t), Idx1(i, t)}}) = 1

\* a Hadamard on the middle wire of the widest register has acted on a basis
\* state with bits set below and above the target: the pair (5, 7) of
\* iteration 3 holds both halves of the amplitude
PairsPartitionIndicesWitness ==
  /\ simQubits = MaxSimQubits /\ simBasis = 5 /\ Len(simGates) = 1
  /\ Len(simTrace) = 2
  /\ simGates[1].type = "H" /\ simGates[1].target = 1
  /\ Idx0(3, 1) = 5 /\ Idx1(3, 1) = 7
  /\ Last(simTrace)[5] # zero /\ Last(simTrace)[7] # zero
  /\ \A idx \in (0 .. Pow2(simQubits) - 1) \ {5, 7} : Last(simTrace)[idx] = zero

\* the single-qubit gate K a controlled gate CK conditions
BaseType(type) ==
  IF type = "CX" THEN "X" ELSE IF type = "CY" THEN "Y"
  ELSE IF type = "CZ" THEN "Z" ELSE "S"

\* C21: a controlled gate CK (K one of X, Y, Z, S) replaces every pair
\* (a0, a1) whose control bit is set by what the 2x2 matrix of K gives,
\* (u00 a0 + u01 a1, u10 a0 + u11 a1)
ControlledMatchesMatrix ==
  \A n \in 1 .. Len(simGates) :
    simGates[n].type \in CONTROLLED_TYPES =>
      LET before == simTrace[n]
          after == simTrace[n + 1]
          t == simGates[n].target
          c == simGates[n].control
          u == GateMatrix(BaseType(simGates[n].type))
      IN \A i \in 0 .. Pow2(simQubits - 1) - 1 :
           isControlSet(Idx0(i, t), c) =>
             LET a0 == before[Idx0(i, t)]
                 a1 == before[Idx1(i, t)]
             IN /\ after[Idx0(i, t)] = add(mul(u[1], a0), mul(u[2], a1))
                /\ after[Idx1(i, t)] = add(mul(u[3], a0), mul(u[4], a1))

\* CY with its control set has acted on a pair with both amplitudes 1 / sqrt 2
\* and left (-i / sqrt 2, i / sqrt 2)
ControlledMatchesMatrixWitness ==
  /\ simQubits = 2 /\ simBasis = 2 /\ Len(simGates) = 2 /\ Len(simTrace) = 3
  /\ simGates[1].type = "H" /\ simGates[1].target = 0
  /\ simGates[2].type = "CY" /\ simGates[2].target = 0 /\ simGates[2].control = 1
  /\ simTrace[2][2] = Cx(INV_SQRT_2, RZero) /\ simTrace[2][3] = Cx(INV_SQRT_2, RZero)
  /\ simTrace[3][2] = Cx(RZero, RNeg(INV_SQRT_2))
  /\ simTrace[3][3] = Cx(RZero, INV_SQRT_2)

\* C22: with 3 qubits the mutual information of every pair i < j is
\* max(0, S(i) + S(j) - S(k)), k the one qubit of {0, 1, 2} that is neither i
\* nor j (qubit 0 for the pair (1, 2)); with 2 qubits S(AB) is 0 and
\* I(0:1) = S(0) + S(1)
ExpectedInfo(data, i, j) ==
  LET k == CHOOSE x \in {0, 1, 2} \ {i, j} : TRUE
      sum == ESub(EAdd(data[i].entropy, data[j].entropy), data[k].entropy)
  IN [source |-> i, target |-> j,
      value |-> IF sum = Inexact THEN Inexact ELSE RMax(RZero, sum)]

MutualInfoByComplement ==
  \A data \in {qubitData(Last(simTrace))} :
    /\ simQubits = 3 =>
         mutualInfo(Last(simTrace)) =
           <<ExpectedInfo(data, 0, 1), ExpectedInfo(data, 0, 2), ExpectedInfo(data, 1, 2)>>
    /\ simQubits = 2 =>
         mutualInfo(Last(simTrace)) =
           <<[source |-> 0, target |-> 1,
              value |-> EAdd(data[0].entropy, data[1].entropy)]>>

\* a Bell pair on qubits 1 and 2 of three, qubit 0 left alone: I(1:2) is
\* 1 + 1 - S(0) = 2 and I(0:1) is max(0, 0 + 1 - 1) = 0
MutualInfoByComplementWitness ==
  /\ simQubits = 3 /\ simBasis = 0 /\ Len(simGates) = 2
  /\ simGates[1].type = "H" /\ simGates[1].target = 1
  /\ simGates[2].type = "CX" /\ simGates[2].target = 2 /\ simGates[2].control = 1
  /\ qubitData(Last(simTrace))[0].entropy = RZero
  /\ qubitData(Last(simTrace))[1].entropy = ROne
  /\ mutualInfo(Last(simTrace))[3] = [source |-> 1, target |-> 2, value |-> RInt(2)]
  /\ mutualInfo(Last(simTrace))[1] = [source |-> 0, target |-> 1, value |-> RZero]

\* C23: a gate list loaded by handleLoadGates is simulated in the order of
\* the list wherever it matters: any two loaded gates that share a qubit, as
\* target or as control, stand in the flattened circuit of the new grid in the
\* same relative order as in the list
LoadKeepsOrder ==
  [][\A list \in GateLists :
       (handleLoadGates(list) /\ ~isLocked) =>
         LET loaded == WithIds(list, FreshId(history))
             flat == Flatten(history'[currentStep' + 1])
             Placed(k) == \E n \in 1 .. Len(flat) : flat[n].id = loaded[k].id
             Pos(k) == CHOOSE n \in 1 .. Len(flat) : flat[n].id = loaded[k].id
         IN \A a, b \in 1 .. Len(loaded) :
              (/\ a < b /\ Placed(a) /\ Placed(b)
               /\ QubitsOf(loaded[a]) \cap QubitsOf(loaded[b]) # {}) =>
                Pos(a) < Pos(b)]_vars

\* C24: while the read loop runs and the editor is unlocked, a "next" line
\* from the device moves currentStep one position forward from where it is
\* (staying at the last history entry), "prev" one position back (staying
\* at 0) and "reset" to 0, whatever has happened since the connection was
\* opened
HardwareStepsFromCurrent ==
  [][\A action \in HardwareCommands :
       (hardwareCommand(action) /\ ~isLocked) =>
         currentStep' = IF action = "next" THEN Min(currentStep + 1, Len(history) - 1)
                        ELSE IF action = "prev" THEN Max(currentStep - 1, 0)
                        ELSE 0]_vars

\* C25: under every interleaving of edits, undo, redo, alignment toggles,
\* settings changes, project loads and device commands, currentStep is an
\* index of history: 0 <= currentStep < history.length
CurrentStepInHistory == 0 <= currentStep /\ currentStep < Len(history)

\* C26: while isLocked is true no operation changes the circuit: gate
\* placement, deletion, clear, gate-list and project load, alignment toggle,
\* undo, redo, device commands and settings changes all leave history (and
\* with it the gates of every grid) and currentStep as they are
LockedCircuitFrozen ==
  [][isLocked => (history' = history /\ currentStep' = currentStep)]_vars

\* two flattened circuits hold the same gates, and any two gates that share a
\* qubit stand in the same relative order in both
SameGatesSameOrder(old, new) ==
  /\ Len(new) = Len(old)
  /\ {new[n] : n \in 1 .. Len(new)} = {old[n] : n \in 1 .. Len(old)}
  /\ \A a, b \in 1 .. Len(old) :
       (a < b /\ QubitsOf(old[a]) \cap QubitsOf(old[b]) # {}) =>
         \E x, y \in 1 .. Len(new) : x < y /\ new[x] = old[a] /\ new[y] = old[b]

\* C27: compacting a grid for the left or layers mode, on an alignment toggle
\* and on an edit made in those modes, keeps every gate of the grid and the
\* relative flattened order of any two gates that share a qubit, so that the
\* compacted grid simulates to the same amplitudes as the grid handed in
CompactionKeepsCircuit ==
  [][/\ \A mode \in AlignmentModes \ {"freeform"} :
          (toggleAlignmentMode(mode) /\ ~isLocked) =>
            /\ SameGatesSameOrder(Flatten(grid), Flatten(history'[currentStep' + 1]))
            /\ runSimulation(BasisVector(0, numQubits),
                             Flatten(history'[currentStep' + 1]), numQubits)
                 = runSimulation(BasisVector(0, numQubits), Flatten(grid), numQubits)
     /\ \A c \in EditCells :
          (handleDrop("Z", c[1], c[2]) /\ ~isLocked /\ alignmentMode # "freeform") =>
            LET edited == PlaceGate(grid, "Z", c[1], c[2], numQubits, FreshId(history))
            IN /\ SameGatesSameOrder(Flatten(edited), Flatten(history'[currentStep' + 1]))
               /\ runSimulation(BasisVector(0, numQubits),
                                Flatten(history'[currentStep' + 1]), numQubits)
                    = runSimulation(BasisVector(0, numQubits), Flatten(edited), numQubits)]_vars

\* C28: in every render in which HardwareBridge is shown, the amplitude
\* vector it receives has 2^numQubits entries and every index getQubitData
\* reads lies inside it, the render between a change of the qubit count and
\* the next run of the simulation effect included
BridgeSeesMatchingVector ==
  (activeTab = "hardware" /\ Rendered) =>
    /\ VecLen(amplitudes) = Pow2(numQubits)
    /\ getQubitDataReads(hardwareMode, amplitudes, numQubits) \subseteq DOMAIN amplitudes

\* an edit that goes through updateGrid, as a step
EditStep ==
  \/ \E ty \in DropKinds, c \in EditCells : handleDrop(ty, c[1], c[2])
  \/ \E ty \in PopupKinds, c \in EditCells : handlePopupSelect(ty, c[1], c[2])
  \/ \E list \in GateLists : handleLoadGates(list)
  \/ clearCircuit

\* C30: an edit made at history position p replaces the redo tail: history
\* becomes the old entries 0 .. p followed by the new grid, currentStep is
\* p + 1, the last index, and redo does nothing; an undo made at
\* currentStep > 0 followed at once by redo gives currentStep and the
\* displayed grid back
EditReplacesRedoTail ==
  [][/\ (EditStep /\ ~isLocked) =>
          /\ Len(history') = currentStep + 2
          /\ SubSeq(history', 1, currentStep + 1) = SubSeq(history, 1, currentStep + 1)
          /\ currentStep' = currentStep + 1
          /\ currentStep' = Len(history') - 1
          /\ redoStep(currentStep', Len(history'), isLocked') = currentStep'
     /\ (undo /\ ~isLocked /\ currentStep > 0) =>
          /\ history' = history
          /\ currentStep' = currentStep - 1
          /\ redoStep(currentStep', Len(history'), isLocked') = currentStep
          /\ history'[redoStep(currentStep', Len(history'), isLocked') + 1] = grid]_vars

\* a project of two history entries was loaded at position 0 and a gate placed
\* there: the second entry is no longer the loaded one
EditReplacesRedoTailWitness ==
  /\ numQubits = 2 /\ fileReader = NoFile /\ ops = 2
  /\ Len(history) = 2 /\ currentStep = 1
  /\ history[1] = EmptyGrid(InitSteps, 2)
  /\ history[2] # BellGrid2
  /\ Len(Flatten(history[2])) = 1


\* C29: every streamed chunk goes into the placeholder made for its own
\* request: each user message keeps its text, the greeting keeps its text, and
\* the message after the user message of a streaming request is the model
\* message holding exactly the text that request has accumulated
ChunksStayInOwnPlaceholder ==
  /\ messages[1] = Greeting
  /\ \A k \in 1 .. Len(requests) :
       LET r == requests[k]
           i == r.userMsg.timestamp
       IN /\ messages[i] = r.userMsg
          /\ r.file # "pdf" =>
               /\ messages[i + 1].role = "model"
               /\ messages[i + 1].text =
                    MessageText("model", IF r.finalResponseText = 0 THEN 0 ELSE k,
                                r.finalResponseText)

====
